---- MODULE Spec2Model ----
(***************************************************************************)
(* A model of libs/data_utils.py of the TMDB TV-show scraper: the          *)
(* identifier resolver (parse_media_id, parse_nfo_url, _convert_ext_id)    *)
(* and the metadata mapper (_clean_plot, _set_unique_ids, _set_rating,     *)
(* add_main_show_info and add_episode_info with the functions they call,   *)
(* _parse_trailer, get_pinyin_initials).                                   *)
(* Each operation has a specification of its own: SpecMediaId, SpecNfo,    *)
(* SpecPlot, SpecShow, SpecTrailer, SpecEpisode and SpecPinyin;            *)
(* SpecMappers is the two mappers together and SpecPinyinFair is           *)
(* SpecPinyin with the fairness of a running thread.                       *)
(*                                                                         *)
(* Text is a sequence of one-character strings, so that case folding,      *)
(* slicing and regular-expression matching are computed as Python does.    *)
(***************************************************************************)
EXTENDS Integers, Sequences, FiniteSets, TLC

VARIABLES
    pc,          \* position of the operation under way
    title,       \* parse_media_id: the argument
    media_id,    \* parse_media_id: the returned value
    nfo,         \* parse_nfo_url: the argument, the text of the NFO file
    ns_match,    \* parse_nfo_url: the named seasons found
    rx,          \* parse_nfo_url: the index in SHOW_ID_REGEXPS of the loop
    ep_grouping, \* parse_nfo_url: the local of that name
    sid_match,   \* parse_nfo_url: the local of that name, returned at the end
    conv_calls,  \* the calls of _convert_ext_id made so far, in order
    plot,        \* _clean_plot: the argument
    clean,       \* _clean_plot: the returned value
    source_settings, \* SOURCE_SETTINGS, the add-on's configuration
    show_info,   \* add_main_show_info, _set_rating: the record to map
    full_info,   \* add_main_show_info: the argument of that name
    ext_ids,     \* _set_unique_ids: the argument, an ordered dictionary
    return_ids,  \* _set_unique_ids: the returned dictionary
    vtag,        \* the list item (the sink) and its video info tag
    raised,      \* the exception that ended the operation, "" when none did
    credit_names, \* _get_credits: the list a direct call returned
    episode_info, \* add_episode_info: the record to map
    results,     \* _parse_trailer: the argument, the list of videos
    alive,       \* the video keys for which _check_youtube answers True
    checked,     \* the keys given to _check_youtube so far, in order
    trailer,     \* _parse_trailer: the returned value
    port_prop,   \* get_pinyin_initials: the local of that name
    daemon_runs, \* the number of RunScript calls made so far
    polls,       \* the number of rounds of the polling loop begun so far
    chunk,       \* get_pinyin_initials: what recv returned last
    data,        \* get_pinyin_initials: whether any byte was received
    pinyin       \* get_pinyin_initials: the returned value, None before

idVars == <<title, media_id>>
nfoVars == <<nfo, ns_match, rx, ep_grouping, sid_match, conv_calls>>
plotVars == <<plot, clean>>
showVars ==
    <<source_settings, show_info, full_info, ext_ids, return_ids, vtag, raised,
      credit_names, episode_info>>
trailerVars == <<results, alive, checked, trailer>>
pinyinVars == <<port_prop, daemon_runs, polls, chunk, data, pinyin>>
vars == <<pc, idVars, nfoVars, plotVars, showVars, trailerVars, pinyinVars>>

\* The variables of the other operations.
notIdVars == <<nfoVars, plotVars, showVars, trailerVars, pinyinVars>>
notNfoVars == <<idVars, plotVars, showVars, trailerVars, pinyinVars>>
notPlotVars == <<idVars, nfoVars, showVars, trailerVars, pinyinVars>>
notShowVars == <<idVars, nfoVars, plotVars, pinyinVars>>
notPinyinVars == <<idVars, nfoVars, plotVars, trailerVars>>

\* Python's None where a {type, title} dictionary is expected.
None == [type |-> "None", title |-> <<>>]

\* An optional string: None, or a string (which may be empty).
NoneStr == [some |-> FALSE, v |-> <<>>]
Some(s) == [some |-> TRUE, v |-> s]

\* Python's None where a UrlParseResult is expected.
NoResult == [provider |-> "None", show_id |-> <<>>, ep_grouping |-> NoneStr]

\* The variables of an operation that is not the one under way.
IdleMediaId == title = <<>> /\ media_id = None
IdleNfo ==
    /\ nfo = <<>>
    /\ ns_match = <<>>
    /\ rx = 0
    /\ ep_grouping = NoneStr
    /\ sid_match = NoResult
    /\ conv_calls = <<>>
IdlePlot == plot = <<>> /\ clean = <<>>

-----------------------------------------------------------------------------
(* Python values, the records of the API and the list item                 *)

\* A value of a dictionary of IDs: a missing key, None, an int or a string.
Absent == [t |-> "absent", n |-> 0, s |-> <<>>]
PyNone == [t |-> "none", n |-> 0, s |-> <<>>]
PyInt(i) == [t |-> "int", n |-> i, s |-> <<>>]
PyStr(x) == [t |-> "str", n |-> 0, s |-> x]

\* A field of the list item that no setter has been called on, and one that
\* a setter has given the value x (a string or a list).
Unset == [set |-> FALSE, v |-> <<>>]
SetTo(x) == [set |-> TRUE, v |-> x]

\* A key of a record that is missing, and one that holds the list x.
NoList == [has |-> FALSE, v |-> <<>>]
List(x) == [has |-> TRUE, v |-> x]

\* A new ListItem: nothing is set, no artwork, season, ID or rating is added.
NewItem ==
    [ title |-> Unset, original_title |-> [set |-> FALSE, v |-> NoneStr],
      tvshow_title |-> Unset, sort_title |-> Unset,
      plot |-> Unset, plot_outline |-> Unset, media_type |-> Unset,
      unique_ids |-> <<>>, episode_guide |-> Unset,
      year |-> [set |-> FALSE, v |-> 0], premiered |-> Unset,
      status |-> Unset, genres |-> Unset, tags |-> Unset, studios |-> Unset,
      countries |-> Unset, mpaa |-> Unset, writers |-> Unset,
      trailer |-> Unset, artwork |-> <<>>, fanart |-> Unset,
      seasons |-> <<>>, cast |-> Unset, ratings |-> <<>>,
      season |-> [set |-> FALSE, v |-> 0], episode |-> [set |-> FALSE, v |-> 0],
      first_aired |-> Unset, duration |-> [set |-> FALSE, v |-> 0],
      directors |-> Unset ]

\* The rating sources the add-on knows, and the entry of a source in the
\* 'ratings' dictionary of a record: the entry or its keys may be missing.
RatingSources == {"tmdb", "imdb", "trakt"}
NoRating == [has |-> FALSE, has_rating |-> FALSE, rating |-> 0,
             has_votes |-> FALSE, votes |-> 0]
Rating(r, v) == [has |-> TRUE, has_rating |-> TRUE, rating |-> r,
                 has_votes |-> TRUE, votes |-> v]
NoRatings == [has |-> FALSE, v |-> [src \in RatingSources |-> NoRating]]

\* The 'credits' dictionary of a record.
NoCredits == [has |-> FALSE, has_crew |-> FALSE, crew |-> <<>>,
              has_cast |-> FALSE, cast |-> <<>>]

\* A record with every key missing.
EmptyInfo ==
    [ name |-> NoneStr, original_name |-> NoneStr, overview |-> NoneStr,
      id |-> Absent, external_ids |-> NoList, first_air_date |-> NoneStr,
      poster_path |-> NoneStr, status |-> NoneStr, genres |-> NoList,
      keywords |-> NoList, origin_country |-> NoList, networks |-> NoList,
      content_ratings |-> NoList, created_by |-> NoList,
      credits |-> NoCredits, videos |-> NoList, images |-> NoList,
      seasons |-> NoList, ratings |-> NoRatings ]

\* The 'credits' dictionary of an episode record.
NoEpisodeCredits == [has |-> FALSE, has_crew |-> FALSE, crew |-> <<>>,
                     has_guest_stars |-> FALSE, guest_stars |-> <<>>]

\* An episode record with every key missing.
EmptyEpisode ==
    [ name |-> NoneStr, episode_number |-> Absent, season_number |-> Absent,
      air_date |-> NoneStr, overview |-> NoneStr, runtime |-> Absent,
      season_cast |-> NoList, credits |-> NoEpisodeCredits, id |-> Absent,
      external_ids |-> NoList, ratings |-> NoRatings, images |-> NoList,
      created_by |-> NoList ]

\* settings.getSourceSettings() with the add-on's settings as installed.
DefaultSettings ==
    [ KEEPTITLE |-> FALSE, WRITE_INITIALS |-> TRUE,
      WRITE_INITIALS_ORIGINALTITLE |-> TRUE, SAVETAGS |-> TRUE,
      STUDIOCOUNTRY |-> FALSE, CATLANDSCAPE |-> TRUE, ENABTRAILER |-> TRUE,
      CERT_COUNTRY |-> <<"u","s">>, CERT_PREFIX |-> <<"R","a","t","e","d"," ">>,
      LANG_DETAILS |-> <<"z","h","-","C","N">>, PLAYERSOPT |-> "tubed",
      RATING_TYPES |-> <<"tmdb">> ]

IdleShow ==
    /\ source_settings = DefaultSettings
    /\ show_info = EmptyInfo
    /\ full_info = FALSE
    /\ ext_ids = <<>>
    /\ return_ids = <<>>
    /\ vtag = NewItem
    /\ raised = ""
    /\ credit_names = <<>>
    /\ episode_info = EmptyEpisode
IdlePinyin ==
    /\ port_prop = <<>>
    /\ daemon_runs = 0
    /\ polls = 0
    /\ chunk = <<>>
    /\ data = FALSE
    /\ pinyin = NoneStr
IdleTrailer ==
    /\ results = <<>>
    /\ alive = {}
    /\ checked = <<>>
    /\ trailer = NoneStr

-----------------------------------------------------------------------------
(* Characters and strings                                                  *)

\* The capital letters and their small letters.
LowerTable ==
    [ A |-> "a", B |-> "b", C |-> "c", D |-> "d", E |-> "e", F |-> "f", G |-> "g",
      H |-> "h", I |-> "i", J |-> "j", K |-> "k", L |-> "l", M |-> "m", N |-> "n",
      O |-> "o", P |-> "p", Q |-> "q", R |-> "r", S |-> "s", T |-> "t", U |-> "u",
      V |-> "v", W |-> "w", X |-> "x", Y |-> "y", Z |-> "z" ]
DigitChars == {"0","1","2","3","4","5","6","7","8","9"}

\* str.lower() on one character.
LowerChar(c) == IF c \in DOMAIN LowerTable THEN LowerTable[c] ELSE c

\* str.lower()
Lower(s) == [k \in 1..Len(s) |-> LowerChar(s[k])]

\* s[n:] for n >= 0 (0-based, as in Python)
DropFirst(s, n) == IF n >= Len(s) THEN <<>> ELSE SubSeq(s, n + 1, Len(s))

\* s[:-n]
DropLast(s, n) == IF n >= Len(s) THEN <<>> ELSE SubSeq(s, 1, Len(s) - n)

\* s.startswith(p)
StartsWith(s, p) ==
    /\ Len(p) <= Len(s)
    /\ \A k \in 1..Len(p) : s[k] = p[k]

\* s.endswith(p)
EndsWith(s, p) ==
    /\ Len(p) <= Len(s)
    /\ \A k \in 1..Len(p) : s[Len(s) - Len(p) + k] = p[k]

\* s.isdigit(): non-empty and every character a digit
IsDigit(s) == Len(s) > 0 /\ \A k \in 1..Len(s) : s[k] \in DigitChars

\* The concatenation of a sequence of strings.
RECURSIVE Concat(_)
Concat(ss) == IF ss = <<>> THEN <<>> ELSE Head(ss) \o Concat(Tail(ss))

\* All sequences over S of length at most n.
RECURSIVE SeqsUpTo(_, _)
SeqsUpTo(S, n) ==
    IF n = 0 THEN {<<>>}
    ELSE LET shorter == SeqsUpTo(S, n - 1)
         IN  shorter \cup {Append(q, x) : q \in shorter, x \in S}

-----------------------------------------------------------------------------
(* Regular expressions: re.search and re.findall with re.I, by backtracking *)
(* in the order Python's engine tries the alternatives.                     *)

\* The items of a pattern: a literal, a group's parentheses, \d+, '.', '.*',
\* '.+' and '.*?'.
Lit(s) == [k |-> "lit", s |-> s, g |-> 0]
GroupOpen(n) == [k |-> "open", s |-> <<>>, g |-> n]
GroupClose(n) == [k |-> "close", s |-> <<>>, g |-> n]
Digits == [k |-> "digits", s |-> <<>>, g |-> 0]
AnyChar == [k |-> "any", s |-> <<>>, g |-> 0]
AnyStar == [k |-> "star", s |-> <<>>, g |-> 0]
AnyPlus == [k |-> "plus", s |-> <<>>, g |-> 0]
AnyLazy == [k |-> "lazy", s |-> <<>>, g |-> 0]

\* The number of groups of a pattern.
NGroups(pat) == Cardinality({i \in 1..Len(pat) : pat[i].k = "open"})

\* Group spans before any group has matched: <<first, one past the last>>.
NoCaps == << <<0, 0>>, <<0, 0>>, <<0, 0>> >>
NoMatch == [ok |-> FALSE, start |-> 0, end |-> 0, caps |-> NoCaps]

\* '.' matches anything but a line break.
NewLine == "\n"

\* The literal s stands at position pos of txt, letter case ignored (re.I).
LitAt(s, txt, pos) ==
    /\ pos + Len(s) - 1 <= Len(txt)
    /\ \A k \in 1..Len(s) : LowerChar(txt[pos + k - 1]) = LowerChar(s[k])

\* The least and the greatest member of a non-empty set of numbers.
Least(S) == CHOOSE x \in S : \A y \in S : x <= y
Greatest(S) == CHOOSE x \in S : \A y \in S : x >= y

\* One past the run of characters from pos on that are in no line break.
LineEnd(txt, pos) ==
    Least({e \in pos..(Len(txt) + 1) : e > Len(txt) \/ txt[e] = NewLine})

\* One past the run of characters from pos on that are digits.
DigitEnd(txt, pos) ==
    Least({e \in pos..(Len(txt) + 1) : e > Len(txt) \/ txt[e] \notin DigitChars})

RECURSIVE MatchFrom(_, _, _, _, _)

\* Greedy: the i-th item ends at the greatest position of lo..hi from which
\* the rest of the pattern matches.
TryDown(pat, i, txt, hi, lo, caps) ==
    LET ends == {e \in lo..hi : MatchFrom(pat, i + 1, txt, e, caps).ok}
    IN  IF ends = {} THEN [ok |-> FALSE, start |-> 0, end |-> 0, caps |-> caps]
        ELSE MatchFrom(pat, i + 1, txt, Greatest(ends), caps)

\* Lazy: the i-th item ends at the least position of lo..hi from which the
\* rest of the pattern matches.
TryUp(pat, i, txt, lo, hi, caps) ==
    LET ends == {e \in lo..hi : MatchFrom(pat, i + 1, txt, e, caps).ok}
    IN  IF ends = {} THEN [ok |-> FALSE, start |-> 0, end |-> 0, caps |-> caps]
        ELSE MatchFrom(pat, i + 1, txt, Least(ends), caps)

\* The items from the i-th on match txt from pos on; caps holds the groups
\* matched so far.
MatchFrom(pat, i, txt, pos, caps) ==
    IF i > Len(pat)
    THEN [ok |-> TRUE, start |-> 0, end |-> pos, caps |-> caps]
    ELSE LET it == pat[i]
         IN  CASE it.k = "lit" ->
                    IF LitAt(it.s, txt, pos)
                    THEN MatchFrom(pat, i + 1, txt, pos + Len(it.s), caps)
                    ELSE NoMatch
               [] it.k = "open" ->
                    MatchFrom(pat, i + 1, txt, pos,
                              [caps EXCEPT ![it.g] = <<pos, pos>>])
               [] it.k = "close" ->
                    MatchFrom(pat, i + 1, txt, pos,
                              [caps EXCEPT ![it.g] = <<caps[it.g][1], pos>>])
               [] it.k = "any" ->
                    IF pos <= Len(txt) /\ txt[pos] # NewLine
                    THEN MatchFrom(pat, i + 1, txt, pos + 1, caps)
                    ELSE NoMatch
               [] it.k = "digits" ->
                    TryDown(pat, i, txt, DigitEnd(txt, pos), pos + 1, caps)
               [] it.k = "star" ->
                    TryDown(pat, i, txt, LineEnd(txt, pos), pos, caps)
               [] it.k = "plus" ->
                    TryDown(pat, i, txt, LineEnd(txt, pos), pos + 1, caps)
               [] it.k = "lazy" ->
                    TryUp(pat, i, txt, pos, LineEnd(txt, pos), caps)

\* re.search(pat, txt[from - 1:], re.I): the leftmost match.
SearchFrom(pat, txt, from) ==
    LET starts == {s \in from..(Len(txt) + 1) :
                       MatchFrom(pat, 1, txt, s, NoCaps).ok}
    IN  IF starts = {} THEN NoMatch
        ELSE [MatchFrom(pat, 1, txt, Least(starts), NoCaps)
                  EXCEPT !.start = Least(starts)]

Search(pat, txt) == SearchFrom(pat, txt, 1)

\* match.group(n)
Group(txt, match, n) == SubSeq(txt, match.caps[n][1], match.caps[n][2] - 1)

\* re.findall(pat, txt, re.I) for a pattern of two groups: the pairs of
\* groups of the successive non-overlapping matches.
RECURSIVE FindAllFrom(_, _, _)
FindAllFrom(pat, txt, from) ==
    LET r == SearchFrom(pat, txt, from)
    IN  IF ~ r.ok THEN <<>>
        ELSE << <<Group(txt, r, 1), Group(txt, r, 2)>> >>
             \o FindAllFrom(pat, txt, IF r.end > r.start THEN r.end ELSE r.end + 1)

FindAll(pat, txt) == FindAllFrom(pat, txt, 1)

-----------------------------------------------------------------------------
(* parse_media_id                                                          *)

STR_tt == <<"t","t">>
STR_imdb_tt == <<"i","m","d","b","/","t","t">>
STR_tmdb_slash == <<"t","m","d","b","/">>
STR_tvdb_slash == <<"t","v","d","b","/">>

\* A variant that forgets the digit test of the bare form.
ParseMediaIdNoDigitTest(t) ==
    LET low == Lower(t)
    IN  IF StartsWith(low, STR_tt)
        THEN [type |-> "imdb_id", title |-> low]
        ELSE IF StartsWith(low, STR_imdb_tt) /\ IsDigit(DropFirst(low, 7))
        THEN [type |-> "imdb_id", title |-> DropFirst(low, 5)]
        ELSE IF StartsWith(low, STR_tmdb_slash) /\ IsDigit(DropFirst(low, 5))
        THEN [type |-> "tmdb_id", title |-> DropFirst(low, 5)]
        ELSE IF StartsWith(low, STR_tvdb_slash) /\ IsDigit(DropFirst(low, 5))
        THEN [type |-> "tvdb_id", title |-> DropFirst(low, 5)]
        ELSE None

\* parse_media_id(title): the ID and its type, or None.
ParseMediaId(t) ==
    LET low == Lower(t)
    IN  IF StartsWith(low, STR_tt) /\ IsDigit(DropFirst(low, 2))
        THEN [type |-> "imdb_id", title |-> low]
        ELSE IF StartsWith(low, STR_imdb_tt) /\ IsDigit(DropFirst(low, 7))
        THEN [type |-> "imdb_id", title |-> DropFirst(low, 5)]
        ELSE IF StartsWith(low, STR_tmdb_slash) /\ IsDigit(DropFirst(low, 5))
        THEN [type |-> "tmdb_id", title |-> DropFirst(low, 5)]
        ELSE IF StartsWith(low, STR_tvdb_slash) /\ IsDigit(DropFirst(low, 5))
        THEN [type |-> "tvdb_id", title |-> DropFirst(low, 5)]
        ELSE None

\* The pieces identifier tokens are built from, and how many a token has.
MaxTokenParts == 3
Tokens ==
    LET parts ==
            { <<"t","t">>, <<"T","t">>,
              <<"i","m","d","b","/">>, <<"I","M","D","B","/">>,
              <<"t","m","d","b","/">>, <<"T","v","D","b","/">>,
              <<"1","2">>, <<"7">>, <<"x">> }
    IN  { Concat(q) : q \in SeqsUpTo(parts, MaxTokenParts) }

InitMediaId ==
    /\ pc = "parse_media_id"
    /\ title \in Tokens
    /\ media_id = None
    /\ IdleNfo
    /\ IdlePinyin
    /\ IdlePlot
    /\ IdleShow
    /\ IdleTrailer

\* A call of parse_media_id(title).
CallParseMediaId ==
    /\ pc = "parse_media_id"
    /\ media_id' = ParseMediaId(title)
    /\ pc' = "done"
    /\ UNCHANGED <<title, notIdVars>>

NextMediaId == CallParseMediaId

SpecMediaId == InitMediaId /\ [][NextMediaId]_vars

-----------------------------------------------------------------------------
(* parse_nfo_url and _convert_ext_id                                       *)

STR_themoviedb == <<"t","h","e","m","o","v","i","e","d","b">>
STR_tmdb == <<"t","m","d","b">>
STR_imdb == <<"i","m","d","b">>
STR_thetvdb == <<"t","h","e","t","v","d","b">>
STR_tvdb == <<"t","v","d","b">>
STR_imdb_id == <<"i","m","d","b","_","i","d">>
STR_tvdb_id == <<"t","v","d","b","_","i","d">>

\* SHOW_ID_REGEXPS, in order of priority.
SHOW_ID_REGEXPS == <<
    \* (themoviedb)\.org/tv/(\d+).*/episode_group/(.*)
    << GroupOpen(1), Lit(STR_themoviedb), GroupClose(1),
       Lit(<<".","o","r","g","/","t","v","/">>),
       GroupOpen(2), Digits, GroupClose(2), AnyStar,
       Lit(<<"/","e","p","i","s","o","d","e","_","g","r","o","u","p","/">>),
       GroupOpen(3), AnyStar, GroupClose(3) >>,
    \* (themoviedb)\.org/tv/(\d+)
    << GroupOpen(1), Lit(STR_themoviedb), GroupClose(1),
       Lit(<<".","o","r","g","/","t","v","/">>),
       GroupOpen(2), Digits, GroupClose(2) >>,
    \* (themoviedb)\.org/./tv/(\d+)
    << GroupOpen(1), Lit(STR_themoviedb), GroupClose(1),
       Lit(<<".","o","r","g","/">>), AnyChar, Lit(<<"/","t","v","/">>),
       GroupOpen(2), Digits, GroupClose(2) >>,
    \* (tmdb)\.org/./tv/(\d+)
    << GroupOpen(1), Lit(STR_tmdb), GroupClose(1),
       Lit(<<".","o","r","g","/">>), AnyChar, Lit(<<"/","t","v","/">>),
       GroupOpen(2), Digits, GroupClose(2) >>,
    \* (imdb)\.com/.+/(tt\d+)
    << GroupOpen(1), Lit(STR_imdb), GroupClose(1),
       Lit(<<".","c","o","m","/">>), AnyPlus, Lit(<<"/">>),
       GroupOpen(2), Lit(<<"t","t">>), Digits, GroupClose(2) >>,
    \* (thetvdb)\.com.+&id=(\d+)
    << GroupOpen(1), Lit(STR_thetvdb), GroupClose(1),
       Lit(<<".","c","o","m">>), AnyPlus, Lit(<<"&","i","d","=">>),
       GroupOpen(2), Digits, GroupClose(2) >>,
    \* (thetvdb)\.com/series/(\d+)
    << GroupOpen(1), Lit(STR_thetvdb), GroupClose(1),
       Lit(<<".","c","o","m","/","s","e","r","i","e","s","/">>),
       GroupOpen(2), Digits, GroupClose(2) >>,
    \* (thetvdb)\.com/api/.*series/(\d+)
    << GroupOpen(1), Lit(STR_thetvdb), GroupClose(1),
       Lit(<<".","c","o","m","/","a","p","i","/">>), AnyStar,
       Lit(<<"s","e","r","i","e","s","/">>),
       GroupOpen(2), Digits, GroupClose(2) >>,
    \* (thetvdb)\.com/.*?"id":(\d+)
    << GroupOpen(1), Lit(STR_thetvdb), GroupClose(1),
       Lit(<<".","c","o","m","/">>), AnyLazy, Lit(<<"\"","i","d","\"",":">>),
       GroupOpen(2), Digits, GroupClose(2) >>
>>

\* ns_regex: <namedseason number="(.*)">(.*)</namedseason>
NS_REGEX ==
    << Lit(<<"<","n","a","m","e","d","s","e","a","s","o","n"," ",
             "n","u","m","b","e","r","=","\"">>),
       GroupOpen(1), AnyStar, GroupClose(1), Lit(<<"\"",">">>),
       GroupOpen(2), AnyStar, GroupClose(2),
       Lit(<<"<","/","n","a","m","e","d","s","e","a","s","o","n",">">>) >>

\* What api_utils.load_info may hand back for a find request: nothing (the
\* request failed, or the answer was empty), or a dictionary that may hold a
\* list 'tv_results' of candidates, each with an 'id'.
NoInfo == [ok |-> FALSE, has_tv |-> FALSE, tv_results |-> <<>>]
FindResponses ==
    { NoInfo,
      [ok |-> TRUE, has_tv |-> FALSE, tv_results |-> <<>>],
      [ok |-> TRUE, has_tv |-> TRUE, tv_results |-> <<>>],
      [ok |-> TRUE, has_tv |-> TRUE,
       tv_results |-> << Some(<<"9","0","0">>), Some(<<"9","0","1">>) >>] }

\* providers_dict.get(ext_provider)
ProvidersDict(ext_provider) ==
    CASE ext_provider = STR_imdb -> Some(STR_imdb_id)
      [] ext_provider = STR_thetvdb -> Some(STR_tvdb_id)
      [] ext_provider = STR_tvdb -> Some(STR_tvdb_id)
      [] OTHER -> NoneStr

\* A variant that sends the find request whatever the provider is.
ConvertExtIdAlwaysAsks(ext_provider, ext_id, resp) ==
    LET provider == ProvidersDict(ext_provider)
        info == resp
    IN  [ext_provider |-> ext_provider,
         ext_id |-> ext_id,
         requested |-> TRUE,
         external_source |-> provider,
         show_info |-> info,
         ret |-> IF info.ok /\ info.has_tv /\ info.tv_results # <<>>
                 THEN info.tv_results[1]
                 ELSE NoneStr]

\* _convert_ext_id(ext_provider, ext_id), where resp is what load_info hands
\* back if it is asked: the call as a record of its arguments, of whether a
\* request was sent and with which external_source, and of the value returned.
ConvertExtId(ext_provider, ext_id, resp) ==
    LET provider == ProvidersDict(ext_provider)
        info == IF provider.some /\ provider.v # <<>> THEN resp ELSE NoInfo
    IN  [ext_provider |-> ext_provider,
         ext_id |-> ext_id,
         requested |-> provider.some /\ provider.v # <<>>,
         external_source |-> provider,
         show_info |-> info,
         ret |-> IF info.ok /\ info.has_tv /\ info.tv_results # <<>>
                 THEN info.tv_results[1]
                 ELSE NoneStr]

\* Python's truth value of an optional identifier.
Truthy(x) == x.some /\ x.v # <<>>

\* The pieces NFO texts are built from, and how many a text has.
MaxNfoParts == 2
NfoTexts ==
    LET parts ==
            { <<"t","h","e","m","o","v","i","e","d","b",".","o","r","g","/","t","v","/","1","2">>,
              <<"T","h","e","M","o","v","i","e","D","B",".","o","r","g","/","t","v","/","3","4">>,
              <<"/","e","p","i","s","o","d","e","_","g","r","o","u","p","/","a","b">>,
              <<"T","h","e","M","o","v","i","e","D","B",".","o","r","g","/","t","v","/","9","/","e","p","i","s","o","d","e","_","g","r","o","u","p","/","c"," ">>,
              <<"i","m","d","b",".","c","o","m","/","t","i","t","l","e","/","t","t","5","6">>,
              <<"t","h","e","t","v","d","b",".","c","o","m","/","s","e","r","i","e","s","/","7","8">>,
              <<"<","N","a","m","e","d","S","e","a","s","o","n"," ","n","u","m","b","e","r","=","\"","1","\"",">",
              "A","<","/","n","a","m","e","d","s","e","a","s","o","n",">">>,
              <<"\n">> }
    IN  { Concat(q) : q \in SeqsUpTo(parts, MaxNfoParts) }

\* The provider tags and IDs _convert_ext_id is called with directly.
ProviderTags == { STR_imdb, STR_thetvdb, STR_tvdb, STR_themoviedb,
                  <<"I","M","D","B">>, <<"x">> }
ExtIds == { <<"t","t","5","6">>, <<"7","8">> }

InitNfo ==
    /\ pc \in {"parse_nfo_url", "convert_ext_id"}
    /\ nfo \in (IF pc = "parse_nfo_url" THEN NfoTexts ELSE {<<>>})
    /\ ns_match = <<>>
    /\ rx = 0
    /\ ep_grouping = NoneStr
    /\ sid_match = NoResult
    /\ conv_calls = <<>>
    /\ IdleMediaId
    /\ IdlePinyin
    /\ IdlePlot
    /\ IdleShow
    /\ IdleTrailer

\* parse_nfo_url, lines 529-532: the named seasons, and the locals.
NfoBegin ==
    /\ pc = "parse_nfo_url"
    /\ ns_match' = FindAll(NS_REGEX, nfo)
    /\ sid_match' = NoResult
    /\ ep_grouping' = NoneStr
    /\ rx' = 1
    /\ pc' = "nfo_loop"
    /\ UNCHANGED <<nfo, conv_calls, notNfoVars>>

\* Line 540: the captured provider tag is the primary provider's. The
\* comparison is an exact one, although the pattern matched with re.I.
IsTmdbTag(g1) == g1 = STR_themoviedb \/ g1 = STR_tmdb

\* A variant that leaves the loop whatever the conversion gave.
BreaksAlways(tmdb_id) == TRUE

\* Lines 549-552: the loop is left on a tmdb_id that is true.
Breaks(tmdb_id) == Truthy(tmdb_id)

\* A variant that takes the third group of every match that has one,
\* whatever the provider tag.
EpGroupingOfAnyTag(direct, regexp, text, show_id_match, previous) ==
    IF NGroups(regexp) >= 3
    THEN Some(Group(text, show_id_match, 3))
    ELSE previous

\* Lines 540-544: ep_grouping after a match. It is assigned only on a match
\* with the primary provider's tag, and group(3) raises IndexError, which is
\* passed over, on a pattern of two groups.
EpGrouping(direct, regexp, text, show_id_match, previous) ==
    IF direct /\ NGroups(regexp) >= 3
    THEN Some(Group(text, show_id_match, 3))
    ELSE previous

\* parse_nfo_url, lines 533-552: one turn of the loop over SHOW_ID_REGEXPS.
NfoTry ==
    /\ pc = "nfo_loop"
    /\ rx <= Len(SHOW_ID_REGEXPS)
    /\ LET regexp == SHOW_ID_REGEXPS[rx]
           show_id_match == Search(regexp, nfo)
       IN  IF ~ show_id_match.ok
           THEN /\ rx' = rx + 1
                /\ UNCHANGED <<pc, ep_grouping, sid_match, conv_calls>>
           ELSE \E resp \in FindResponses :
                LET g1 == Group(nfo, show_id_match, 1)
                    g2 == Group(nfo, show_id_match, 2)
                    direct == IsTmdbTag(g1)
                    call == ConvertExtId(g1, g2, resp)
                    tmdb_id == IF direct THEN Some(g2) ELSE call.ret
                    grouping == EpGrouping(direct, regexp, nfo, show_id_match,
                                           ep_grouping)
                IN  /\ ep_grouping' = grouping
                    /\ conv_calls' = IF direct THEN conv_calls
                                     ELSE Append(conv_calls, call)
                    /\ IF Breaks(tmdb_id)
                       THEN /\ sid_match' = [provider |-> "tmdb",
                                             show_id |-> tmdb_id.v,
                                             ep_grouping |-> grouping]
                            /\ pc' = "nfo_return"
                            /\ rx' = rx
                       ELSE /\ rx' = rx + 1
                            /\ UNCHANGED <<pc, sid_match>>
    /\ UNCHANGED <<nfo, ns_match, notNfoVars>>

\* parse_nfo_url, line 553: return sid_match, ns_match, after a break or
\* after the last pattern.
NfoReturn ==
    /\ \/ pc = "nfo_return"
       \/ pc = "nfo_loop" /\ rx > Len(SHOW_ID_REGEXPS)
    /\ pc' = "done"
    /\ UNCHANGED <<nfoVars, notNfoVars>>

\* A call of _convert_ext_id by itself.
CallConvertExtId ==
    /\ pc = "convert_ext_id"
    /\ \E p \in ProviderTags, i \in ExtIds, resp \in FindResponses :
           conv_calls' = Append(conv_calls, ConvertExtId(p, i, resp))
    /\ pc' = "done"
    /\ UNCHANGED <<nfo, ns_match, rx, ep_grouping, sid_match, notNfoVars>>

NextNfo == NfoBegin \/ NfoTry \/ NfoReturn \/ CallConvertExtId

SpecNfo == InitNfo /\ [][NextNfo]_vars

-----------------------------------------------------------------------------
(* _clean_plot                                                             *)

\* CLEAN_PLOT_REPLACEMENTS
CLEAN_PLOT_REPLACEMENTS == <<
    << <<"<","b",">">>, <<"[","B","]">> >>,
    << <<"<","/","b",">">>, <<"[","/","B","]">> >>,
    << <<"<","i",">">>, <<"[","I","]">> >>,
    << <<"<","/","i",">">>, <<"[","/","I","]">> >>,
    << <<"<","/","p",">","<","p",">">>, <<"[","C","R","]">> >> >>

\* old stands at position i of s.
OccursAt(s, old, i) ==
    /\ i + Len(old) - 1 <= Len(s)
    /\ \A k \in 1..Len(old) : s[i + k - 1] = old[k]

\* s.replace(old, new), from position i on: the occurrences of old are
\* replaced from the left, none overlapping another.
RECURSIVE ReplaceFrom(_, _, _, _)
ReplaceFrom(s, old, new, i) ==
    IF i > Len(s) THEN <<>>
    ELSE IF OccursAt(s, old, i)
    THEN new \o ReplaceFrom(s, old, new, i + Len(old))
    ELSE <<s[i]>> \o ReplaceFrom(s, old, new, i + 1)

Replace(s, old, new) == ReplaceFrom(s, old, new, 1)

\* The loop over CLEAN_PLOT_REPLACEMENTS, from the n-th replacement on.
RECURSIVE ApplyReplacements(_, _)
ApplyReplacements(s, n) ==
    IF n > Len(CLEAN_PLOT_REPLACEMENTS) THEN s
    ELSE ApplyReplacements(Replace(s, CLEAN_PLOT_REPLACEMENTS[n][1],
                                   CLEAN_PLOT_REPLACEMENTS[n][2]), n + 1)

\* Where the match of TAG_RE = <[^>]+> that starts at i ends, or 0: the first
\* '>' after i, if it is not next to the '<'.
TagEnd(s, i) ==
    IF s[i] # "<" THEN 0
    ELSE LET closes == {j \in (i + 1)..Len(s) : s[j] = ">"}
         IN  IF closes = {} \/ Least(closes) = i + 1 THEN 0 ELSE Least(closes)

\* TAG_RE.sub('', s), from position i on.
RECURSIVE StripTagsFrom(_, _)
StripTagsFrom(s, i) ==
    IF i > Len(s) THEN <<>>
    ELSE IF TagEnd(s, i) > 0 THEN StripTagsFrom(s, TagEnd(s, i) + 1)
    ELSE <<s[i]>> \o StripTagsFrom(s, i + 1)

StripTags(s) == StripTagsFrom(s, 1)

\* A variant that strips the tags before it substitutes.
CleanPlotStripsFirst(p) == ApplyReplacements(StripTags(p), 1)

\* _clean_plot(plot)
CleanPlot(p) == StripTags(ApplyReplacements(p, 1))

\* The pieces plots are built from, and how many a plot has.
MaxPlotParts == 3
Plots ==
    LET parts ==
            { <<"<">>, <<">">>, <<"x">>, <<"<","b",">">>, <<"<","/","b",">">>,
              <<"<","i",">">>, <<"<","/","i",">">>, <<"<","/","p",">">>, <<"<","p",">">>,
              <<"[","B","]">> }
    IN  { Concat(q) : q \in SeqsUpTo(parts, MaxPlotParts) }

InitPlot ==
    /\ pc = "clean_plot"
    /\ plot \in Plots
    /\ clean = <<>>
    /\ IdleMediaId
    /\ IdlePinyin
    /\ IdleNfo
    /\ IdleShow
    /\ IdleTrailer

\* A call of _clean_plot(plot).
CallCleanPlot ==
    /\ pc = "clean_plot"
    /\ clean' = CleanPlot(plot)
    /\ pc' = "done"
    /\ UNCHANGED <<plot, notPlotVars>>

NextPlot == CallCleanPlot

SpecPlot == InitPlot /\ [][NextPlot]_vars

-----------------------------------------------------------------------------
(* _set_unique_ids and _set_rating                                         *)

VALIDEXTIDS == << <<"t","m","d","b","_","i","d">>, <<"i","m","d","b","_","i","d">>, <<"t","v","d","b","_","i","d">> >>
STR_tmdb_id == <<"t","m","d","b","_","i","d">>

\* The elements of a list.
Range(s) == {s[k] : k \in 1..Len(s)}

\* A for loop over a list: acc after Body(acc, x) for each element x in order.
RECURSIVE Loop(_, _, _)
Loop(Body(_, _), acc, list) ==
    IF list = <<>> THEN acc
    ELSE Loop(Body, Body(acc, Head(list)), Tail(list))

\* str(n) for an int n >= 0: its decimal digits.
DigitTable == <<"0","1","2","3","4","5","6","7","8","9">>
RECURSIVE NatToStr(_)
NatToStr(n) ==
    IF n < 10 THEN <<DigitTable[n + 1]>>
    ELSE NatToStr(n \div 10) \o <<DigitTable[(n % 10) + 1]>>

\* bool(value) and str(value) for a value of a dictionary of IDs.
IsTrue(value) ==
    CASE value.t = "int" -> value.n # 0
      [] value.t = "str" -> value.s # <<>>
      [] OTHER -> FALSE
Str(value) ==
    CASE value.t = "int" -> NatToStr(value.n)
      [] value.t = "str" -> value.s
      [] OTHER -> <<"N","o","n","e">>

\* A dictionary is the sequence of its items, in insertion order.
\* d[key] = value
DictSet(d, key, value) ==
    IF \E k \in 1..Len(d) : d[k].key = key
    THEN [k \in 1..Len(d) |->
            IF d[k].key = key THEN [key |-> key, value |-> value] ELSE d[k]]
    ELSE Append(d, [key |-> key, value |-> value])

\* A variant of the loop body that does not look the key up in VALIDEXTIDS.
SetUniqueIdOfAnyKey(acc, item) ==
    IF IsTrue(item.value)
    THEN LET isTMDB == item.key = STR_tmdb_id
             shortkey == DropLast(item.key, 3)
             str_value == Str(item.value)
         IN  [unique_ids |-> Append(acc.unique_ids,
                                    [value |-> str_value, type |-> shortkey,
                                     isdefault |-> isTMDB]),
              return_ids |-> DictSet(acc.return_ids, shortkey, str_value)]
    ELSE acc

\* One turn of the loop of _set_unique_ids, on the item (key, value): acc is
\* the list of the setUniqueID calls made on vtag and return_ids so far.
SetUniqueId(acc, item) ==
    IF item.key \in Range(VALIDEXTIDS) /\ IsTrue(item.value)
    THEN LET isTMDB == item.key = STR_tmdb_id
             shortkey == DropLast(item.key, 3)
             str_value == Str(item.value)
         IN  [unique_ids |-> Append(acc.unique_ids,
                                    [value |-> str_value, type |-> shortkey,
                                     isdefault |-> isTMDB]),
              return_ids |-> DictSet(acc.return_ids, shortkey, str_value)]
    ELSE acc

\* _set_unique_ids(ext_ids, vtag), where unique_ids is the list of the
\* setUniqueID calls already made on vtag.
SetUniqueIds(ids, unique_ids) ==
    Loop(SetUniqueId, [unique_ids |-> unique_ids, return_ids |-> <<>>], ids)

\* A variant of the loop body that flags every rating as the default one.
SetRatingOfAlwaysFirst(acc, rating_type, the_info) ==
    LET entry == IF the_info.ratings.has /\ rating_type \in RatingSources
                 THEN the_info.ratings.v[rating_type] ELSE NoRating
        rating == IF entry.has /\ entry.has_rating THEN entry.rating ELSE 0
        votes == IF entry.has /\ entry.has_votes THEN entry.votes ELSE 0
    IN  IF rating > 0
        THEN [ratings |-> Append(acc.ratings,
                                 [rating |-> rating, votes |-> votes,
                                  type |-> rating_type, isdefault |-> TRUE]),
              first |-> FALSE]
        ELSE acc

\* One turn of the loop of _set_rating, for rating_type: acc is the list of
\* the setRating calls made on vtag so far and the local 'first'.  A rating
\* is a number of tenths, so that 75 stands for 7.5.
SetRatingOf(acc, rating_type, the_info) ==
    LET entry == IF the_info.ratings.has /\ rating_type \in RatingSources
                 THEN the_info.ratings.v[rating_type] ELSE NoRating
        rating == IF entry.has /\ entry.has_rating THEN entry.rating ELSE 0
        votes == IF entry.has /\ entry.has_votes THEN entry.votes ELSE 0
    IN  IF rating > 0
        THEN [ratings |-> Append(acc.ratings,
                                 [rating |-> rating, votes |-> votes,
                                  type |-> rating_type, isdefault |-> acc.first]),
              first |-> FALSE]
        ELSE acc

\* _set_rating(the_info, vtag), where ratings is the list of the setRating
\* calls already made on vtag.
SetRating(the_info, settings, ratings) ==
    Loop(LAMBDA acc, rating_type : SetRatingOf(acc, rating_type, the_info),
         [ratings |-> ratings, first |-> TRUE],
         settings.RATING_TYPES).ratings

-----------------------------------------------------------------------------
(* _parse_trailer and _check_youtube                                       *)

STR_en == <<"e","n">>
TUBED_PLAYER == <<"p","l","u","g","i","n",":","/","/","p","l","u","g","i","n",".","v","i","d","e","o",".","t","u","b","e","d","/","?","m","o","d","e","=","p","l","a","y","&","v","i","d","e","o","_","i","d","=">>
YOUTUBE_PLAYER == <<"p","l","u","g","i","n",":","/","/","p","l","u","g","i","n",".","v","i","d","e","o",".","y","o","u","t","u","b","e","/","p","l","a","y","/","?","v","i","d","e","o","_","i","d","=">>

\* _check_youtube(key), where live is the set of the keys whose page loads
\* and does not say "Video unavailable".
CheckYoutube(key, live) == key \in live

\* One turn of the loop over results in the pass of video_lang: st holds the
\* local backup_keys, the keys given to _check_youtube so far and the key the
\* call returns with, if any (nothing is done once the call has returned).
ScanResult(st, result, video_lang, live) ==
    IF st.found.some THEN st
    ELSE IF result.site = "YouTube" /\ result.iso_639_1 = video_lang
    THEN IF result.type = "Trailer"
         THEN [st EXCEPT !.checked = Append(@, result.key),
                         !.found = IF CheckYoutube(result.key, live)
                                   THEN Some(result.key) ELSE NoneStr]
         ELSE [st EXCEPT !.backup_keys = Append(@, result.key)]
    ELSE st

\* A variant of the turn that checks every backup key, also after one of
\* them has passed.
ScanBackupGoesOn(st, keybackup, live) ==
    [st EXCEPT !.checked = Append(@, keybackup),
               !.found = IF st.found.some THEN @
                         ELSE IF CheckYoutube(keybackup, live)
                         THEN Some(keybackup) ELSE NoneStr]

\* One turn of the loop over backup_keys.
ScanBackup(st, keybackup, live) ==
    IF st.found.some THEN st
    ELSE [st EXCEPT !.checked = Append(@, keybackup),
                    !.found = IF CheckYoutube(keybackup, live)
                              THEN Some(keybackup) ELSE NoneStr]

\* A variant of the turn that leaves the backup keys unchecked.
LanguagePassWithoutBackups(st, res, video_lang, live) ==
    IF st.found.some THEN st
    ELSE Loop(LAMBDA s, result : ScanResult(s, result, video_lang, live), st, res)

\* One turn of the loop over the languages: the results, then the backup
\* keys gathered so far in this call.
LanguagePass(st, res, video_lang, live) ==
    IF st.found.some THEN st
    ELSE LET scanned == Loop(LAMBDA s, result :
                                 ScanResult(s, result, video_lang, live),
                             st, res)
         IN  Loop(LAMBDA s, keybackup : ScanBackup(s, keybackup, live),
                  scanned, scanned.backup_keys)

\* _parse_trailer(results): the value returned and the checks made.
ParseTrailer(res, settings, live) ==
    IF res = <<>> THEN [url |-> NoneStr, checked |-> <<>>]
    ELSE LET addon_player == IF settings.PLAYERSOPT = "tubed"
                             THEN TUBED_PLAYER ELSE YOUTUBE_PLAYER
             lang == SubSeq(settings.LANG_DETAILS, 1, 2)
             st == Loop(LAMBDA s, video_lang : LanguagePass(s, res, video_lang, live),
                        [backup_keys |-> <<>>, checked |-> <<>>, found |-> NoneStr],
                        <<lang, STR_en>>)
         IN  [url |-> IF st.found.some
                      THEN Some(addon_player \o st.found.v) ELSE NoneStr,
              checked |-> st.checked]

\* The key of the video at position k of a result list.
VideoKey(k) == <<"v">> \o NatToStr(k)

MaxVideos == 3

\* The result lists of at most MaxVideos videos, each with a key of its own:
\* YouTube videos in two languages, of type Trailer or not, a video of
\* another site and one in another language.
VideoLists ==
    LET kinds_of_video ==
            { [site |-> "YouTube", iso_639_1 |-> l, type |-> t] :
                l \in {<<"z","h">>, <<"e","n">>}, t \in {"Trailer", "Teaser"} }
            \cup { [site |-> "Vimeo", iso_639_1 |-> <<"z","h">>, type |-> "Trailer"],
                   [site |-> "YouTube", iso_639_1 |-> <<"f","r">>, type |-> "Trailer"] }
    IN  { [k \in 1..Len(kinds) |->
             [site |-> kinds[k].site, iso_639_1 |-> kinds[k].iso_639_1,
              type |-> kinds[k].type, key |-> VideoKey(k)]] :
          kinds \in SeqsUpTo(kinds_of_video, MaxVideos) }

\* The settings _parse_trailer reads.
TrailerSettings ==
    { [DefaultSettings EXCEPT !.LANG_DETAILS = l, !.PLAYERSOPT = p] :
        l \in {<<"z","h","-","C","N">>, <<"e","n","-","U","S">>}, p \in {"tubed", "youtube"} }

InitTrailer ==
    /\ pc = "parse_trailer"
    /\ IdleMediaId
    /\ IdlePinyin
    /\ IdleNfo
    /\ IdlePlot
    /\ source_settings \in TrailerSettings
    /\ show_info = EmptyInfo
    /\ full_info = FALSE
    /\ ext_ids = <<>>
    /\ return_ids = <<>>
    /\ vtag = NewItem
    /\ raised = ""
    /\ credit_names = <<>>
    /\ episode_info = EmptyEpisode
    /\ results \in VideoLists
    /\ alive \in SUBSET {VideoKey(k) : k \in 1..Len(results)}
    /\ checked = <<>>
    /\ trailer = NoneStr

\* trailer = _parse_trailer(results)
CallParseTrailer ==
    /\ pc = "parse_trailer"
    /\ LET r == ParseTrailer(results, source_settings, alive)
       IN  /\ trailer' = r.url
           /\ checked' = r.checked
    /\ pc' = "done"
    /\ UNCHANGED <<results, alive, notShowVars, showVars>>

NextTrailer == CallParseTrailer

SpecTrailer == InitTrailer /\ [][NextTrailer]_vars

-----------------------------------------------------------------------------
(* add_main_show_info and the functions it calls                           *)

\* utils.safe_get(dct, key, default): the default for a missing key or None.
SafeGet(field, default) == IF field.some THEN field.v ELSE default

\* dct.get(key, default) for a key that holds a string when it is there.
Get(field, default) == IF field.some THEN field.v ELSE default

\* settings.loadBaseUrls(): the roots of the image and of the preview URLs.
imagerooturl == <<"i","m","g","/">>
previewrooturl == <<"p","r","e","/">>

\* int(s) for a string of decimal digits.
StrToNat(s) ==
    Loop(LAMBDA n, c : n * 10 + (CHOOSE d \in 0..9 : DigitTable[d + 1] = c), 0, s)

\* json.dumps(d) for a dictionary of strings.
JsonDumps(d) ==
    <<"{">>
    \o Loop(LAMBDA text, item :
                text \o (IF text = <<>> THEN <<>> ELSE <<",", " ">>)
                \o <<"\"">> \o item.key \o <<"\"", ":", " ", "\"">>
                \o item.value \o <<"\"">>,
            <<>>, d)
    \o <<"}">>

\* get_pinyin_initials(text): the values it may return. It returns "" for an
\* empty text and when the service is not there or fails, and the initials
\* the service gives otherwise.
PinyinResults(text) == IF text = <<>> THEN {<<>>} ELSE {<<>>, <<"n">>}

\* _get_names(item_list)
GetNames(item_list) == [k \in 1..Len(item_list) |-> item_list[k].name]

\* COUNTRY_MAP, for the codes that the records below hold.
COUNTRY_MAP == [CN |-> <<"C","h","i","n","a">>, US |-> <<"U","n","i","t","e","d"," ","S","t","a","t","e","s">>]

\* The certification given to setMpaa, None when setMpaa is not called: the
\* loop over content_ratings keeps mpaa and mpaa_backup.
Mpaa(content_ratings, settings) ==
    IF content_ratings = <<>> THEN NoneStr
    ELSE LET acc == Loop(LAMBDA a, content_rating :
                           LET iso == Lower(content_rating.iso_3166_1)
                           IN  [mpaa_backup |->
                                    IF iso = <<"u","s">> THEN content_rating.rating
                                    ELSE a.mpaa_backup,
                                mpaa |->
                                    IF iso = Lower(settings.CERT_COUNTRY)
                                    THEN Some(Get(content_rating.rating, <<>>))
                                    ELSE a.mpaa],
                         [mpaa |-> Some(<<>>), mpaa_backup |-> Some(<<>>)],
                         content_ratings)
             mpaa == IF Truthy(acc.mpaa) THEN acc.mpaa ELSE acc.mpaa_backup
         IN  IF Truthy(mpaa) THEN Some(settings.CERT_PREFIX \o mpaa.v)
             ELSE NoneStr

\* _get_credits(show_info): the loop over created_by, then the one over crew.
GetCredits(info) ==
    Loop(LAMBDA credits, item :
             LET isWriter == \/ Lower(item.job) = <<"w","r","i","t","e","r">>
                             \/ Lower(item.department) = <<"w","r","i","t","i","n","g">>
             IN  IF isWriter /\ item.name \notin Range(credits)
                 THEN Append(credits, item.name) ELSE credits,
         Loop(LAMBDA credits, item : Append(credits, item.name),
              <<>>, info.created_by.v),
         IF info.credits.has /\ info.credits.has_crew
         THEN info.credits.crew ELSE <<>>)

\* get_image_urls(image): the URL and the preview URL, None for an SVG.
GetImageUrls(image) ==
    IF EndsWith(image.file_path, <<".","s","v","g">>)
    THEN [theurl |-> NoneStr, previewurl |-> NoneStr]
    ELSE IF image.type = "fanarttv"
    THEN [theurl |-> Some(image.file_path),
          previewurl |-> Some(Replace(image.file_path,
                                      <<".","f","a","n","a","r","t",".","t","v","/","f","a","n","a","r","t","/">>,
                                      <<".","f","a","n","a","r","t",".","t","v","/","p","r","e","v","i","e","w","/">>))]
    ELSE [theurl |-> Some(imagerooturl \o image.file_path),
          previewurl |-> Some(previewrooturl \o image.file_path)]

\* An addAvailableArtwork call; the season is -1 when none is given.
Artwork(theurl, arttype, previewurl, season) ==
    [url |-> theurl, arttype |-> arttype, preview |-> previewurl, season |-> season]

\* The loop over the images of a type other than backdrops: each image that
\* has a URL is added as artwork of type destination.
AddImages(artwork, image_list, destination, season) ==
    Loop(LAMBDA added, image :
             LET urls == GetImageUrls(image)
             IN  IF Truthy(urls.theurl)
                 THEN Append(added, Artwork(urls.theurl.v, destination,
                                            urls.previewurl.v, season))
                 ELSE added,
         artwork, image_list)

\* The loop over the backdrops: a backdrop with a language is added as
\* landscape artwork when CATLANDSCAPE is set, and is put in fanart_list
\* otherwise.
AddBackdrops(artwork, image_list, settings) ==
    Loop(LAMBDA acc, image :
             LET urls == GetImageUrls(image)
             IN  IF /\ image.iso_639_1.some
                    /\ Lower(image.iso_639_1.v) # <<"x","x">>
                    /\ settings.CATLANDSCAPE
                    /\ Truthy(urls.theurl)
                 THEN [acc EXCEPT !.artwork = Append(@,
                          Artwork(urls.theurl.v, "landscape", urls.previewurl.v, 0 - 1))]
                 ELSE IF Truthy(urls.theurl)
                 THEN [acc EXCEPT !.fanart_list = Append(@, urls.theurl.v)]
                 ELSE acc,
         [artwork |-> artwork, fanart_list |-> <<>>], image_list)

\* set_show_artwork(show_info, list_item): the loop over the image types.
SetShowArtwork(list_item, images, settings) ==
    Loop(LAMBDA item, entry :
             IF entry.image_type = "backdrops"
             THEN LET r == AddBackdrops(item.artwork, entry.image_list, settings)
                  IN  [item EXCEPT !.artwork = r.artwork,
                                   !.fanart = IF r.fanart_list # <<>>
                                              THEN SetTo(r.fanart_list) ELSE @]
             ELSE LET destination ==
                          IF entry.image_type = "posters" THEN "poster"
                          ELSE IF entry.image_type = "logos" THEN "clearlogo"
                          ELSE entry.image_type
                  IN  [item EXCEPT !.artwork =
                          AddImages(@, entry.image_list, destination, 0 - 1)],
         list_item, images)

\* _add_season_info(show_info, vtag): the loop over the seasons and, for each
\* season, over its images.
AddSeasonInfo(list_item, seasons) ==
    Loop(LAMBDA item, season :
             [item EXCEPT
                 !.seasons = Append(@, [number |-> season.season_number,
                                        name |-> SafeGet(season.name, <<>>)]),
                 !.artwork =
                     Loop(LAMBDA added, entry :
                              AddImages(added, entry.image_list,
                                        IF entry.image_type = "posters"
                                        THEN "poster" ELSE entry.image_type,
                                        season.season_number),
                          @, season.images)],
         list_item, seasons)

\* _set_cast(cast_info, vtag): the list given to setCast.
SetCast(cast_info) ==
    [k \in 1..Len(cast_info) |->
        LET item == cast_info[k]
        IN  [name |-> item.name,
             role |-> IF item.character.some THEN item.character.v
                      ELSE Get(item.character_name, <<>>),
             order |-> item.order,
             thumb |-> IF item.profile_path.some
                       THEN Some(imagerooturl \o item.profile_path.v)
                       ELSE NoneStr]]

\* showname of add_main_show_info: the local, None when show_info['name']
\* raises KeyError.
ShowName(info, settings) ==
    IF settings.KEEPTITLE /\ Truthy(info.original_name)
    THEN info.original_name
    ELSE info.name

\* Lines 296 to 325: the titles, the plot and the media type.
SetNames(item, info, settings, pinyin_initials) ==
    LET showname == ShowName(info, settings).v
        prefixed == pinyin_initials \o <<"|">> \o showname
        original_name ==
            IF pinyin_initials # <<>> /\ settings.WRITE_INITIALS_ORIGINALTITLE
            THEN IF Truthy(info.original_name)
                 THEN Some(prefixed \o <<"|">> \o info.original_name.v)
                 ELSE Some(prefixed)
            ELSE info.original_name
        cleaned == CleanPlot(SafeGet(info.overview, <<>>))
    IN  [item EXCEPT
            !.sort_title = IF pinyin_initials # <<>> /\ settings.WRITE_INITIALS
                           THEN SetTo(prefixed) ELSE @,
            !.title = SetTo(showname),
            !.original_title = [set |-> TRUE, v |-> original_name],
            !.tvshow_title = SetTo(showname),
            !.plot = SetTo(cleaned),
            !.plot_outline = SetTo(cleaned),
            !.media_type = SetTo(<<"t","v","s","h","o","w">>)]

\* Line 326 and 327: the local ext_ids.
ShowExtIds(info) ==
    Loop(LAMBDA d, item : DictSet(d, item.key, item.value),
         <<[key |-> STR_tmdb_id, value |-> info.id]>>,
         info.external_ids.v)

\* Lines 330 to 332: the year and the date of the first airing.
SetFirstAired(item, info) ==
    IF Truthy(info.first_air_date)
    THEN [item EXCEPT
            !.year = [set |-> TRUE,
                      v |-> StrToNat(SubSeq(info.first_air_date.v, 1, 4))],
            !.premiered = SetTo(info.first_air_date.v)]
    ELSE item

\* Lines 334 to 462: the status, genres, tags, studios, countries,
\* certification and writers.
SetDetails(item, info, settings) ==
    LET tags == Loop(LAMBDA t, code :
                         IF code \in DOMAIN COUNTRY_MAP
                         THEN Append(t, COUNTRY_MAP[code]) ELSE t,
                     IF settings.SAVETAGS THEN GetNames(info.keywords.v) ELSE <<>>,
                     info.origin_country.v)
        networks == info.networks.v
        has_network == networks # <<>>
        country == IF has_network THEN Get(networks[1].origin_country, <<>>)
                   ELSE <<>>
        mpaa == Mpaa(info.content_ratings.v, settings)
    IN  [item EXCEPT
            !.status = SetTo(SafeGet(info.status, <<>>)),
            !.genres = SetTo(GetNames(info.genres.v)),
            !.tags = IF tags # <<>> THEN SetTo(tags) ELSE @,
            !.studios =
                IF has_network /\ country # <<>> /\ settings.STUDIOCOUNTRY
                THEN SetTo(<<networks[1].name \o <<" ","(">> \o country \o <<")">>>>)
                ELSE IF has_network THEN SetTo(<<networks[1].name>>)
                ELSE @,
            !.countries = IF country # <<>> THEN SetTo(<<country>>) ELSE @,
            !.mpaa = IF mpaa.some THEN SetTo(mpaa.v) ELSE @,
            !.writers = SetTo(GetCredits(info))]

\* Lines 473 to 478: the poster of a record that is not mapped in full.
SetPoster(item, info) ==
    LET image == Get(info.poster_path, <<>>)
    IN  IF image # <<>> /\ ~ EndsWith(image, <<".","s","v","g">>)
        THEN [item EXCEPT !.artwork = Append(@,
                 Artwork(imagerooturl \o image, "poster",
                         previewrooturl \o image, 0 - 1))]
        ELSE item

\* A variant that maps every record in full.
BranchOnFullInfoAlwaysFull(full) == TRUE

\* Line 333: the branch on full_info.
BranchOnFullInfo(full) == full

\* A record of the API with all its keys.
FullInfo ==
    [ name |-> Some(<<"N">>), original_name |-> Some(<<"O">>),
      overview |-> Some(<<"<","b",">","x","<","/","b",">">>),
      id |-> PyInt(5),
      external_ids |-> List(<< [key |-> <<"i","m","d","b","_","i","d">>, value |-> PyStr(<<"t","t","1">>)],
                               [key |-> <<"t","v","d","b","_","i","d">>, value |-> PyNone],
                               [key |-> <<"f","a","c","e","b","o","o","k","_","i","d">>, value |-> PyStr(<<"f","b">>)] >>),
      first_air_date |-> Some(<<"2","0","2","0","-","0","1","-","0","2">>),
      poster_path |-> Some(<<"/","p",".","j","p","g">>),
      status |-> Some(<<"E","n","d","e","d">>),
      genres |-> List(<<[name |-> <<"D","r","a","m","a">>]>>),
      keywords |-> List(<<[name |-> <<"k","w">>]>>),
      origin_country |-> List(<<"CN", "XX">>),
      networks |-> List(<<[name |-> <<"H","B","O">>, origin_country |-> Some(<<"U","S">>)]>>),
      content_ratings |-> List(<<[iso_3166_1 |-> <<"U","S">>, rating |-> Some(<<"T","V","-","M","A">>)]>>),
      created_by |-> List(<<[name |-> <<"C">>]>>),
      credits |-> [has |-> TRUE, has_crew |-> TRUE,
                   crew |-> << [name |-> <<"W">>, job |-> <<"W","r","i","t","e","r">>,
                                department |-> <<"W","r","i","t","i","n","g">>],
                               [name |-> <<"D">>, job |-> <<"D","i","r","e","c","t","o","r">>,
                                department |-> <<"D","i","r","e","c","t","i","n","g">>] >>,
                   has_cast |-> TRUE,
                   cast |-> << [name |-> <<"A">>, character |-> Some(<<"R">>),
                                character_name |-> NoneStr, order |-> 0,
                                profile_path |-> Some(<<"/","a",".","j","p","g">>)] >>],
      videos |-> List(<< [site |-> "YouTube", iso_639_1 |-> <<"e","n">>,
                          type |-> "Trailer", key |-> VideoKey(1)] >>),
      images |-> List(<< [image_type |-> "backdrops",
                          image_list |-> << [file_path |-> <<"/","b",".","j","p","g">>,
                                             iso_639_1 |-> NoneStr, type |-> ""],
                                            [file_path |-> <<"/","l",".","j","p","g">>,
                                             iso_639_1 |-> Some(<<"e","n">>), type |-> ""] >>],
                         [image_type |-> "posters",
                          image_list |-> << [file_path |-> <<"/","q",".","j","p","g">>,
                                             iso_639_1 |-> Some(<<"e","n">>), type |-> ""],
                                            [file_path |-> <<"/","q",".","s","v","g">>,
                                             iso_639_1 |-> Some(<<"e","n">>), type |-> ""] >>] >>),
      seasons |-> List(<< [season_number |-> 1, name |-> Some(<<"S","1">>),
                           images |-> << [image_type |-> "posters",
                                          image_list |-> << [file_path |-> <<"/","s",".","j","p","g">>,
                                                             iso_639_1 |-> NoneStr,
                                                             type |-> ""] >>] >>] >>),
      ratings |-> [has |-> TRUE,
                   v |-> [src \in RatingSources |->
                            IF src = "tmdb" THEN Rating(75, 10) ELSE NoRating]] ]

\* For each key of a record, the other values it takes: the key is missing,
\* or holds an empty value or one of another form.
OtherValues ==
    [ name |-> {NoneStr},
      original_name |-> {NoneStr},
      overview |-> {NoneStr},
      id |-> {Absent},
      external_ids |-> {NoList, List(<<[key |-> STR_tmdb_id, value |-> PyStr(<<"9">>)]>>)},
      first_air_date |-> {NoneStr},
      poster_path |-> {NoneStr, Some(<<>>), Some(<<"/","p",".","s","v","g">>)},
      status |-> {NoneStr},
      genres |-> {NoList},
      keywords |-> {NoList},
      origin_country |-> {NoList},
      networks |-> {NoList},
      content_ratings |-> {NoList},
      created_by |-> {NoList},
      credits |-> {NoCredits, [FullInfo.credits EXCEPT !.has_cast = FALSE, !.cast = <<>>]},
      videos |-> {NoList},
      images |-> {NoList},
      seasons |-> {NoList},
      ratings |-> {NoRatings} ]

MaxDeviations == 1

\* The records that differ from FullInfo in at most n keys.
RECURSIVE InfosWithin(_)
InfosWithin(n) ==
    IF n = 0 THEN {FullInfo}
    ELSE LET S == InfosWithin(n - 1)
         IN  S \cup UNION { { [r EXCEPT ![f] = a] : r \in S, a \in OtherValues[f] } :
                            f \in DOMAIN OtherValues }
ShowInfos == InfosWithin(MaxDeviations)

\* The settings that differ from the installed ones in at most one key.
ShowSettings ==
    { DefaultSettings,
      [DefaultSettings EXCEPT !.KEEPTITLE = TRUE],
      [DefaultSettings EXCEPT !.WRITE_INITIALS = FALSE],
      [DefaultSettings EXCEPT !.WRITE_INITIALS_ORIGINALTITLE = FALSE],
      [DefaultSettings EXCEPT !.SAVETAGS = FALSE],
      [DefaultSettings EXCEPT !.STUDIOCOUNTRY = TRUE],
      [DefaultSettings EXCEPT !.CATLANDSCAPE = FALSE],
      [DefaultSettings EXCEPT !.ENABTRAILER = FALSE],
      [DefaultSettings EXCEPT !.CERT_COUNTRY = <<"c","n">>],
      [DefaultSettings EXCEPT !.RATING_TYPES = <<"imdb", "tmdb">>] }

\* The dictionaries of IDs of at most MaxIds items that _set_unique_ids is
\* given: the keys are distinct, a value is None, an int or a string.
MaxIds == 3
ExtIdDicts ==
    LET keys == Range(VALIDEXTIDS) \cup {<<"f","a","c","e","b","o","o","k","_","i","d">>}
        values == {PyNone, PyStr(<<>>), PyStr(<<"t","t","1">>), PyInt(0), PyInt(5)}
    IN  { d \in SeqsUpTo([key : keys, value : values], MaxIds) :
            \A i, j \in 1..Len(d) : d[i].key = d[j].key => i = j }

\* The 'ratings' dictionaries that _set_rating is given: for each source no
\* entry, a rating of 0, a positive one, one without votes, votes only.
RatingDicts ==
    LET entries == { NoRating, Rating(0, 0), Rating(75, 10),
                     [Rating(80, 0) EXCEPT !.has_votes = FALSE],
                     [Rating(0, 4) EXCEPT !.has_rating = FALSE] }
    IN  {NoRatings}
        \cup { [has |-> TRUE, v |-> f] : f \in [RatingSources -> entries] }

\* The lists of rating sources that are configured.
RatingTypeLists ==
    { l \in SeqsUpTo(RatingSources, Cardinality(RatingSources)) :
        \A i, j \in 1..Len(l) : l[i] = l[j] => i = j }

\* Records for a direct call of _get_credits: created_by and credits.crew are
\* lists of at most MaxCredits entries over two names; a crew entry is a
\* writer by its job, by its department (in any letter case), or not at all.
MaxCredits == 2
CreditInfos ==
    LET Names    == { <<"A">>, <<"B">> }
        Creators == { [name |-> n] : n \in Names }
        Jobs     == { [job |-> <<"W","R","I","T","E","R">>, department |-> <<"D","i","r","e","c","t","i","n","g">>],
                      [job |-> <<"D","i","r","e","c","t","o","r">>, department |-> <<"w","r","i","t","i","n","g">>],
                      [job |-> <<"D","i","r","e","c","t","o","r">>, department |-> <<"D","i","r","e","c","t","i","n","g">>],
                      [job |-> <<>>, department |-> <<>>] }
        Crew     == { [name |-> n, job |-> j.job, department |-> j.department] :
                        n \in Names, j \in Jobs }
    IN  { [EmptyInfo EXCEPT !.created_by = c,
                            !.credits = [NoCredits EXCEPT !.has = TRUE, !.has_crew = TRUE,
                                                          !.crew = w]] :
            c \in {NoList} \cup { List(l) : l \in SeqsUpTo(Creators, MaxCredits) },
            w \in SeqsUpTo(Crew, MaxCredits) }

InitShow ==
    /\ IdleMediaId
    /\ IdlePinyin
    /\ IdleNfo
    /\ IdlePlot
    /\ IdleTrailer
    /\ return_ids = <<>>
    /\ vtag = NewItem
    /\ raised = ""
    /\ credit_names = <<>>
    /\ episode_info = EmptyEpisode
    /\ \/ /\ pc = "add_main_show_info"
          /\ source_settings \in ShowSettings
          /\ show_info \in ShowInfos
          /\ full_info \in BOOLEAN
          /\ ext_ids = <<>>
       \/ /\ pc = "set_unique_ids"
          /\ source_settings = DefaultSettings
          /\ show_info = EmptyInfo
          /\ full_info = FALSE
          /\ ext_ids \in ExtIdDicts
       \/ /\ pc = "set_rating"
          /\ source_settings \in
                { [DefaultSettings EXCEPT !.RATING_TYPES = l] : l \in RatingTypeLists }
          /\ show_info \in { [EmptyInfo EXCEPT !.ratings = r] : r \in RatingDicts }
          /\ full_info = FALSE
          /\ ext_ids = <<>>
       \/ /\ pc = "get_credits"
          /\ source_settings = DefaultSettings
          /\ show_info \in CreditInfos
          /\ full_info = FALSE
          /\ ext_ids = <<>>

\* _set_unique_ids(ext_ids, vtag), called on a new list item.
CallSetUniqueIds ==
    /\ pc = "set_unique_ids"
    /\ LET r == SetUniqueIds(ext_ids, vtag.unique_ids)
       IN  /\ vtag' = [vtag EXCEPT !.unique_ids = r.unique_ids]
           /\ return_ids' = r.return_ids
    /\ pc' = "done"
    /\ UNCHANGED <<source_settings, show_info, full_info, ext_ids, raised,
                   credit_names, episode_info, notShowVars, trailerVars>>

\* _set_rating(the_info, vtag), called on a new list item.
CallSetRating ==
    /\ pc = "set_rating"
    /\ vtag' = [vtag EXCEPT !.ratings = SetRating(show_info, source_settings, @)]
    /\ pc' = "done"
    /\ UNCHANGED <<source_settings, show_info, full_info, ext_ids, return_ids,
                   raised, credit_names, episode_info, notShowVars, trailerVars>>

\* _get_credits(show_info), called on its own.
CallGetCredits ==
    /\ pc = "get_credits"
    /\ credit_names' = GetCredits(show_info)
    /\ pc' = "got_credits"
    /\ UNCHANGED <<source_settings, show_info, full_info, ext_ids, return_ids, vtag,
                   raised, episode_info, notShowVars, trailerVars>>

\* add_main_show_info, lines 296 to 325: show_info['name'] raises KeyError
\* when the name is looked up and missing.
ShowNames ==
    /\ pc = "add_main_show_info"
    /\ IF ~ ShowName(show_info, source_settings).some
       THEN /\ raised' = "KeyError"
            /\ pc' = "raised"
            /\ UNCHANGED vtag
       ELSE /\ \E pinyin_initials \in
                    PinyinResults(ShowName(show_info, source_settings).v) :
                 vtag' = SetNames(vtag, show_info, source_settings, pinyin_initials)
            /\ pc' = "show_ids"
            /\ UNCHANGED raised
    /\ UNCHANGED <<source_settings, show_info, full_info, ext_ids, return_ids,
                   credit_names, episode_info, notShowVars, trailerVars>>

\* Lines 326 to 333: show_info['id'] raises KeyError when the ID is missing.
ShowIds ==
    /\ pc = "show_ids"
    /\ IF show_info.id = Absent
       THEN /\ raised' = "KeyError"
            /\ pc' = "raised"
            /\ UNCHANGED <<vtag, ext_ids, return_ids>>
       ELSE /\ ext_ids' = ShowExtIds(show_info)
            /\ LET r == SetUniqueIds(ext_ids', vtag.unique_ids)
               IN  /\ return_ids' = r.return_ids
                   /\ vtag' = SetFirstAired(
                                 [vtag EXCEPT
                                    !.unique_ids = r.unique_ids,
                                    !.episode_guide = SetTo(JsonDumps(r.return_ids))],
                                 show_info)
            /\ pc' = IF BranchOnFullInfo(full_info) THEN "show_details"
                     ELSE "show_poster"
            /\ UNCHANGED raised
    /\ UNCHANGED <<source_settings, show_info, full_info, credit_names, episode_info, notShowVars, trailerVars>>

\* Lines 334 to 467: the details and, if trailers are enabled, the trailer.
ShowDetails ==
    /\ pc = "show_details"
    /\ IF source_settings.ENABTRAILER
       THEN /\ results' = show_info.videos.v
            /\ alive' \in SUBSET {results'[k].key : k \in 1..Len(results')}
            /\ LET r == ParseTrailer(results', source_settings, alive')
               IN  /\ checked' = r.checked
                   /\ trailer' = r.url
                   /\ vtag' = [SetDetails(vtag, show_info, source_settings) EXCEPT
                                 !.trailer = IF Truthy(r.url) THEN SetTo(r.url.v) ELSE @]
       ELSE /\ vtag' = SetDetails(vtag, show_info, source_settings)
            /\ UNCHANGED trailerVars
    /\ pc' = "show_artwork"
    /\ UNCHANGED <<source_settings, show_info, full_info, ext_ids, return_ids,
                   raised, credit_names, episode_info, notShowVars>>

\* Line 468: set_show_artwork.
ShowArtwork ==
    /\ pc = "show_artwork"
    /\ vtag' = SetShowArtwork(vtag, show_info.images.v, source_settings)
    /\ pc' = "show_seasons"
    /\ UNCHANGED <<source_settings, show_info, full_info, ext_ids, return_ids,
                   raised, credit_names, episode_info, notShowVars, trailerVars>>

\* Line 469: _add_season_info, where show_info['seasons'] raises KeyError
\* when the seasons are missing.
ShowSeasons ==
    /\ pc = "show_seasons"
    /\ IF ~ show_info.seasons.has
       THEN /\ raised' = "KeyError"
            /\ pc' = "raised"
            /\ UNCHANGED vtag
       ELSE /\ vtag' = AddSeasonInfo(vtag, show_info.seasons.v)
            /\ pc' = "show_cast"
            /\ UNCHANGED raised
    /\ UNCHANGED <<source_settings, show_info, full_info, ext_ids, return_ids,
                   credit_names, episode_info, notShowVars, trailerVars>>

\* Line 470: _set_cast, where show_info['credits']['cast'] raises KeyError
\* when the credits or the cast are missing.
ShowCast ==
    /\ pc = "show_cast"
    /\ IF ~ (show_info.credits.has /\ show_info.credits.has_cast)
       THEN /\ raised' = "KeyError"
            /\ pc' = "raised"
            /\ UNCHANGED vtag
       ELSE /\ vtag' = [vtag EXCEPT !.cast = SetTo(SetCast(show_info.credits.cast))]
            /\ pc' = "show_rating"
            /\ UNCHANGED raised
    /\ UNCHANGED <<source_settings, show_info, full_info, ext_ids, return_ids,
                   credit_names, episode_info, notShowVars, trailerVars>>

\* Line 471: _set_rating.
ShowRating ==
    /\ pc = "show_rating"
    /\ vtag' = [vtag EXCEPT !.ratings = SetRating(show_info, source_settings, @)]
    /\ pc' = "show_return"
    /\ UNCHANGED <<source_settings, show_info, full_info, ext_ids, return_ids,
                   raised, credit_names, episode_info, notShowVars, trailerVars>>

\* Lines 472 to 478: the poster of a record that is not mapped in full.
ShowPoster ==
    /\ pc = "show_poster"
    /\ vtag' = SetPoster(vtag, show_info)
    /\ pc' = "show_return"
    /\ UNCHANGED <<source_settings, show_info, full_info, ext_ids, return_ids,
                   raised, credit_names, episode_info, notShowVars, trailerVars>>

\* Lines 479 and 480: the list item is returned.
ShowReturn ==
    /\ pc = "show_return"
    /\ pc' = "done"
    /\ UNCHANGED <<showVars, notShowVars, trailerVars>>

NextShow ==
    \/ CallSetUniqueIds
    \/ CallSetRating
    \/ CallGetCredits
    \/ ShowNames
    \/ ShowIds
    \/ ShowDetails
    \/ ShowArtwork
    \/ ShowSeasons
    \/ ShowCast
    \/ ShowRating
    \/ ShowPoster
    \/ ShowReturn

SpecShow == InitShow /\ [][NextShow]_vars

-----------------------------------------------------------------------------
(* add_episode_info                                                         *)

\* _get_directors(episode_info): the crew whose job is exactly 'Director'.
GetDirectors(info) ==
    Loop(LAMBDA directors_, item :
             IF item.job = <<"D","i","r","e","c","t","o","r">> THEN Append(directors_, item.name)
             ELSE directors_,
         <<>>,
         IF info.credits.has /\ info.credits.has_crew THEN info.credits.crew ELSE <<>>)

\* An episode record as the API returns it.
FullEpisode ==
    [ name |-> Some(<<"E">>), episode_number |-> PyInt(2), season_number |-> PyInt(1),
      air_date |-> Some(<<"2","0","2","0","-","0","1","-","0","9">>), overview |-> Some(<<"<","i",">","y","<","/","i",">">>),
      runtime |-> PyInt(45),
      season_cast |-> List(<< [name |-> <<"A">>, character |-> Some(<<"R">>),
                               character_name |-> NoneStr, order |-> 0,
                               profile_path |-> Some(<<"/","a",".","j","p","g">>)] >>),
      credits |-> [has |-> TRUE, has_crew |-> TRUE,
                   crew |-> << [name |-> <<"W">>, job |-> <<"W","r","i","t","e","r">>,
                                department |-> <<"W","r","i","t","i","n","g">>],
                               [name |-> <<"D">>, job |-> <<"D","i","r","e","c","t","o","r">>,
                                department |-> <<"D","i","r","e","c","t","i","n","g">>] >>,
                   has_guest_stars |-> TRUE,
                   guest_stars |-> << [name |-> <<"G">>, character |-> NoneStr,
                                       character_name |-> Some(<<"Q">>), order |-> 1,
                                       profile_path |-> NoneStr] >>],
      id |-> PyInt(7),
      external_ids |-> List(<<[key |-> STR_imdb_id, value |-> PyStr(<<"t","t","2">>)]>>),
      ratings |-> [has |-> TRUE,
                   v |-> [src \in RatingSources |->
                            IF src = "tmdb" THEN Rating(80, 3) ELSE NoRating]],
      images |-> List(<< [image_type |-> "stills",
                          image_list |-> << [file_path |-> <<"/","t",".","j","p","g">>,
                                             iso_639_1 |-> NoneStr, type |-> ""] >>] >>),
      created_by |-> NoList ]

\* The episode records that differ from FullEpisode in at most
\* MaxEpisodeDeviations keys: the key is missing or holds an empty value.
MaxEpisodeDeviations == 2
EpisodeInfos ==
    LET Other == [ name |-> {NoneStr},
                   episode_number |-> {Absent},
                   season_number |-> {Absent},
                   air_date |-> {NoneStr},
                   overview |-> {NoneStr},
                   runtime |-> {Absent, PyInt(0)},
                   season_cast |-> {NoList},
                   credits |-> {NoEpisodeCredits,
                                [FullEpisode.credits EXCEPT !.has_guest_stars = FALSE,
                                                            !.guest_stars = <<>>]},
                   id |-> {Absent},
                   external_ids |-> {NoList},
                   ratings |-> {NoRatings},
                   images |-> {NoList} ]
        RECURSIVE Within(_)
        Within(n) ==
            IF n = 0 THEN {FullEpisode}
            ELSE LET S == Within(n - 1)
                 IN  S \cup UNION { { [r EXCEPT ![f] = a] : r \in S, a \in Other[f] } :
                                    f \in DOMAIN Other }
    IN  Within(MaxEpisodeDeviations)

InitEpisode ==
    /\ pc = "add_episode_info"
    /\ IdleMediaId
    /\ IdlePinyin
    /\ IdleNfo
    /\ IdlePlot
    /\ IdleTrailer
    /\ source_settings = DefaultSettings
    /\ show_info = EmptyInfo
    /\ full_info \in BOOLEAN
    /\ ext_ids = <<>>
    /\ return_ids = <<>>
    /\ vtag = NewItem
    /\ raised = ""
    /\ credit_names = <<>>
    /\ episode_info \in EpisodeInfos

\* Lines 486 to 494: the title, the numbers, the media type and the date of
\* the first airing. The default of the title is computed before get() is
\* called, so episode_info['episode_number'] raises KeyError when the number
\* is missing, whether or not the record has a name.
EpisodeBasics ==
    /\ pc = "add_episode_info"
    /\ IF episode_info.episode_number = Absent
       THEN /\ raised' = "KeyError"
            /\ pc' = "raised"
            /\ UNCHANGED vtag
       ELSE LET title_ == Get(episode_info.name,
                              <<"E","p","i","s","o","d","e"," ">> \o Str(episode_info.episode_number))
                titled == [vtag EXCEPT !.title = SetTo(title_)]
            IN  IF episode_info.season_number = Absent
                THEN /\ raised' = "KeyError"
                     /\ pc' = "raised"
                     /\ vtag' = titled
                ELSE /\ vtag' = [titled EXCEPT
                        !.season = [set |-> TRUE, v |-> episode_info.season_number.n],
                        !.episode = [set |-> TRUE, v |-> episode_info.episode_number.n],
                        !.media_type = SetTo(<<"e","p","i","s","o","d","e">>),
                        !.first_aired = IF episode_info.air_date.some
                                        THEN SetTo(episode_info.air_date.v) ELSE @]
                     /\ pc' = IF full_info THEN "episode_details" ELSE "episode_return"
                     /\ UNCHANGED raised
    /\ UNCHANGED <<source_settings, show_info, full_info, ext_ids, return_ids,
                   credit_names, episode_info, notShowVars, trailerVars>>

\* Lines 495 to 519, the mapping in full: the plot, the date, the duration,
\* the cast, the IDs, the rating, the stills, the writers and the directors.
\* episode_info['season_cast'], episode_info['credits']['guest_stars'] and
\* episode_info['id'] raise KeyError when the key is missing.
EpisodeDetails ==
    /\ pc = "episode_details"
    /\ LET plot_ == CleanPlot(episode_info.overview.v)
           described ==
               [vtag EXCEPT
                  !.plot = IF episode_info.overview.some THEN SetTo(plot_) ELSE @,
                  !.plot_outline = IF episode_info.overview.some THEN SetTo(plot_) ELSE @,
                  !.premiered = IF episode_info.air_date.some
                                THEN SetTo(episode_info.air_date.v) ELSE @,
                  !.duration = IF IsTrue(episode_info.runtime)
                               THEN [set |-> TRUE, v |-> episode_info.runtime.n * 60]
                               ELSE @]
           with_cast ==
               [described EXCEPT
                  !.cast = SetTo(SetCast(episode_info.season_cast.v
                                         \o episode_info.credits.guest_stars))]
           ids == Loop(LAMBDA d, item : DictSet(d, item.key, item.value),
                       <<[key |-> STR_tmdb_id, value |-> episode_info.id]>>,
                       episode_info.external_ids.v)
           r == SetUniqueIds(ids, with_cast.unique_ids)
           stills == Loop(LAMBDA l, entry :
                              IF entry.image_type = "stills" THEN entry.image_list ELSE l,
                          <<>>, episode_info.images.v)
       IN  IF ~ ( /\ episode_info.season_cast.has
                  /\ episode_info.credits.has
                  /\ episode_info.credits.has_guest_stars )
           THEN /\ raised' = "KeyError"
                /\ pc' = "raised"
                /\ vtag' = described
                /\ UNCHANGED <<ext_ids, return_ids>>
           ELSE IF episode_info.id = Absent
           THEN /\ raised' = "KeyError"
                /\ pc' = "raised"
                /\ vtag' = with_cast
                /\ UNCHANGED <<ext_ids, return_ids>>
           ELSE /\ vtag' = [with_cast EXCEPT
                              !.unique_ids = r.unique_ids,
                              !.ratings = SetRating(episode_info, source_settings, @),
                              !.artwork = AddImages(@, stills, "thumb", 0 - 1),
                              !.writers = SetTo(GetCredits(episode_info)),
                              !.directors = SetTo(GetDirectors(episode_info))]
                /\ ext_ids' = ids
                /\ return_ids' = r.return_ids
                /\ pc' = "episode_return"
                /\ UNCHANGED raised
    /\ UNCHANGED <<source_settings, show_info, full_info, credit_names, episode_info,
                   notShowVars, trailerVars>>

\* Lines 520 to 522: the list item is returned.
EpisodeReturn ==
    /\ pc = "episode_return"
    /\ pc' = "done"
    /\ UNCHANGED <<showVars, notShowVars, trailerVars>>

NextEpisode ==
    \/ EpisodeBasics
    \/ EpisodeDetails
    \/ EpisodeReturn

SpecEpisode == InitEpisode /\ [][NextEpisode]_vars

\* The two mappers, add_main_show_info and add_episode_info, with the
\* helpers of the first.
InitMappers == InitShow \/ InitEpisode
NextMappers == NextShow \/ NextEpisode
SpecMappers == InitMappers /\ [][NextMappers]_vars

-----------------------------------------------------------------------------
(* get_pinyin_initials, and the titles add_main_show_info makes of it       *)

\* range(50) of the loop that waits for the port.
POLL_ROUNDS == 50

\* What getProperty('TMDB_TV_OPTIMIZATION_SERVICE_PORT') may answer: nothing,
\* a port number, or a text that int() rejects.
PortValues == { <<>>, <<"8">>, <<"x">> }

\* What recv may return while the peer sends: two chunks that differ.
Chunks == { <<"a">>, <<"b">> }

\* What the peer's answer may be once json.loads is given it: no JSON at
\* all, JSON that is no object, an object without 'result', and an object
\* whose 'result' is an empty or a non-empty string.
Responses ==
    { [json |-> FALSE, object |-> FALSE, result |-> NoneStr],
      [json |-> TRUE, object |-> FALSE, result |-> NoneStr],
      [json |-> TRUE, object |-> TRUE, result |-> NoneStr],
      [json |-> TRUE, object |-> TRUE, result |-> Some(<<>>)],
      [json |-> TRUE, object |-> TRUE, result |-> Some(<<"n">>)] }

\* The records and settings the titles are made of: the names are there,
\* the name may be empty and the original name may be missing.
PinyinInfos ==
    { FullInfo,
      [FullInfo EXCEPT !.original_name = NoneStr],
      [FullInfo EXCEPT !.name = Some(<<>>)] }
PinyinSettings ==
    { DefaultSettings,
      [DefaultSettings EXCEPT !.KEEPTITLE = TRUE],
      [DefaultSettings EXCEPT !.WRITE_INITIALS = FALSE],
      [DefaultSettings EXCEPT !.WRITE_INITIALS_ORIGINALTITLE = FALSE] }

InitPinyin ==
    /\ pc = "get_pinyin_initials"
    /\ IdleMediaId
    /\ IdleNfo
    /\ IdlePlot
    /\ IdleTrailer
    /\ IdlePinyin
    /\ source_settings \in PinyinSettings
    /\ show_info \in PinyinInfos
    /\ full_info = FALSE
    /\ ext_ids = <<>>
    /\ return_ids = <<>>
    /\ vtag = NewItem
    /\ raised = ""
    /\ credit_names = <<>>
    /\ episode_info = EmptyEpisode

\* return value: the function returns it and the caller goes on.
PinyinReturn(value) ==
    /\ pinyin' = Some(value)
    /\ pc' = "set_names"

\* Lines 80 to 87, called with showname: the empty text is answered at once;
\* otherwise the port is read from the window property.
PinyinBegin ==
    /\ pc = "get_pinyin_initials"
    /\ IF ShowName(show_info, source_settings).v = <<>>
       THEN /\ PinyinReturn(<<>>)
            /\ UNCHANGED port_prop
       ELSE \E answer \in PortValues :
               /\ port_prop' = answer
               /\ pc' = IF answer = <<>> THEN "run_script" ELSE "connect"
               /\ UNCHANGED pinyin
    /\ UNCHANGED <<daemon_runs, polls, chunk, data, showVars, notPinyinVars>>

\* Lines 88 to 94: no port yet, so the daemon is started with RunScript.
PinyinRunScript ==
    /\ pc = "run_script"
    /\ daemon_runs' = daemon_runs + 1
    /\ pc' = "poll"
    /\ UNCHANGED <<port_prop, polls, chunk, data, pinyin, showVars, notPinyinVars>>

\* Lines 96 to 104: a round of the loop reads the property, reads it again
\* to keep it when it is set, and sleeps otherwise; after the loop the
\* function returns "" when it still has no port.
PinyinPoll ==
    /\ pc = "poll"
    /\ IF polls < POLL_ROUNDS
       THEN /\ polls' = polls + 1
            /\ \E first \in PortValues :
                  IF first # <<>>
                  THEN \E second \in PortValues :
                          /\ port_prop' = second
                          /\ IF second = <<>>
                             THEN PinyinReturn(<<>>)
                             ELSE pc' = "connect" /\ UNCHANGED pinyin
                  ELSE /\ pc' = "poll"
                       /\ UNCHANGED <<port_prop, pinyin>>
       ELSE /\ PinyinReturn(<<>>)
            /\ UNCHANGED <<polls, port_prop>>
    /\ UNCHANGED <<daemon_runs, chunk, data, showVars, notPinyinVars>>

\* Lines 106 to 113: int(port_prop) raises ValueError for a text that is no
\* number; the socket may fail to connect or to send. The except clause
\* turns every exception into the return of "".
PinyinConnect ==
    /\ pc = "connect"
    /\ IF ~ IsDigit(port_prop)
       THEN PinyinReturn(<<>>)
       ELSE \E connected \in BOOLEAN :
               IF connected
               THEN pc' = "recv" /\ UNCHANGED pinyin
               ELSE PinyinReturn(<<>>)
    /\ UNCHANGED <<port_prop, daemon_runs, polls, chunk, data, showVars, notPinyinVars>>

\* Lines 115 to 120, a round of the loop that reads the answer: recv returns
\* a chunk, which is added to data, or nothing, which ends the loop, or it
\* raises (the timeout of 5 seconds, a reset), which returns "".
PinyinRecv ==
    /\ pc = "recv"
    /\ \/ \E received \in Chunks :
             /\ chunk' = received
             /\ data' = TRUE
             /\ pc' = "recv"
             /\ UNCHANGED pinyin
       \/ /\ chunk' = <<>>
          /\ pc' = "parse"
          /\ UNCHANGED <<data, pinyin>>
       \/ /\ PinyinReturn(<<>>)
          /\ UNCHANGED <<chunk, data>>
    /\ UNCHANGED <<port_prop, daemon_runs, polls, showVars, notPinyinVars>>

\* Lines 122 to 128: no data gives ""; json.loads raises on what is no JSON
\* and get is missing on what is no object, which give "" as well; an
\* object gives its 'result', "" when it has none.
PinyinParse ==
    /\ pc = "parse"
    /\ IF ~ data
       THEN PinyinReturn(<<>>)
       ELSE \E response \in Responses :
               IF response.json /\ response.object
               THEN PinyinReturn(Get(response.result, <<>>))
               ELSE PinyinReturn(<<>>)
    /\ UNCHANGED <<port_prop, daemon_runs, polls, chunk, data, showVars, notPinyinVars>>

\* Lines 307 to 325 of add_main_show_info, with the value that
\* get_pinyin_initials returned.
PinyinSetNames ==
    /\ pc = "set_names"
    /\ vtag' = SetNames(vtag, show_info, source_settings, pinyin.v)
    /\ pc' = "done"
    /\ UNCHANGED <<source_settings, show_info, full_info, ext_ids, return_ids, raised,
                   credit_names, episode_info, pinyinVars, notPinyinVars>>

NextPinyin ==
    \/ PinyinBegin
    \/ PinyinRunScript
    \/ PinyinPoll
    \/ PinyinConnect
    \/ PinyinRecv
    \/ PinyinParse
    \/ PinyinSetNames

SpecPinyin == InitPinyin /\ [][NextPinyin]_vars

\* The interpreter goes on running the one thread there is: a step of
\* get_pinyin_initials that can be taken is taken. What the window property
\* and the peer answer stays free.
PinyinStep ==
    \/ PinyinBegin
    \/ PinyinRunScript
    \/ PinyinPoll
    \/ PinyinConnect
    \/ PinyinRecv
    \/ PinyinParse
SpecPinyinFair == SpecPinyin /\ WF_vars(PinyinStep)

-----------------------------------------------------------------------------
(* Properties of parse_media_id                                            *)

\* low is prefix followed by one or more digits and nothing else.
HasForm(low, prefix) ==
    /\ Len(low) > Len(prefix)
    /\ SubSeq(low, 1, Len(prefix)) = prefix
    /\ \A k \in (Len(prefix) + 1)..Len(low) : low[k] \in DigitChars

\* The digits that follow the prefix.
DigitsAfter(low, prefix) == SubSeq(low, Len(prefix) + 1, Len(low))

\* C1: with the token folded to lower case, 'tt'+digits gives imdb_id with the
\* whole (folded) token, 'imdb/tt'+digits gives imdb_id with 'tt'+digits,
\* 'tmdb/'+digits gives tmdb_id with the digits, 'tvdb/'+digits gives tvdb_id
\* with the digits, and every other token gives None.
C1_ParseMediaIdForms ==
    pc = "done" =>
        LET low == Lower(title)
        IN  /\ HasForm(low, STR_tt) =>
                media_id = [type |-> "imdb_id", title |-> low]
            /\ HasForm(low, STR_imdb_tt) =>
                media_id = [type |-> "imdb_id",
                            title |-> STR_tt \o DigitsAfter(low, STR_imdb_tt)]
            /\ HasForm(low, STR_tmdb_slash) =>
                media_id = [type |-> "tmdb_id",
                            title |-> DigitsAfter(low, STR_tmdb_slash)]
            /\ HasForm(low, STR_tvdb_slash) =>
                media_id = [type |-> "tvdb_id",
                            title |-> DigitsAfter(low, STR_tvdb_slash)]
            /\ (~ HasForm(low, STR_tt) /\ ~ HasForm(low, STR_imdb_tt)
                /\ ~ HasForm(low, STR_tmdb_slash) /\ ~ HasForm(low, STR_tvdb_slash))
                => media_id = None

\* A prefixed IMDB token written with capitals has been resolved.
C1_Witness ==
    /\ pc = "done"
    /\ title # Lower(title)
    /\ HasForm(Lower(title), STR_imdb_tt)
    /\ media_id # None
    /\ media_id.title = STR_tt \o DigitsAfter(Lower(title), STR_imdb_tt)

-----------------------------------------------------------------------------
(* Properties of parse_nfo_url and _convert_ext_id                         *)

\* The i-th pattern matches somewhere in the text.
Matches(i) == Search(SHOW_ID_REGEXPS[i], nfo).ok
MatchGroup(i, n) == Group(nfo, Search(SHOW_ID_REGEXPS[i], nfo), n)

\* The patterns of the primary provider, and those of the secondary ones.
TmdbPatterns == {i \in 1..Len(SHOW_ID_REGEXPS) :
                    SHOW_ID_REGEXPS[i][2].s \in {STR_themoviedb, STR_tmdb}}
OtherPatterns == (1..Len(SHOW_ID_REGEXPS)) \ TmdbPatterns

\* The patterns that match, and the first of a set of them.
Matching(S) == {i \in S : Matches(i)}

\* parse_nfo_url has returned (a call of _convert_ext_id by itself leaves
\* rx at 0).
NfoDone == pc = "done" /\ rx > 0

\* Every match of a primary provider's pattern has its tag in small letters,
\* as the pattern spells it.
TmdbTagsPlain == \A i \in Matching(TmdbPatterns) : IsTmdbTag(MatchGroup(i, 1))

\* C2: a text with both a TMDB URL and an IMDB or TheTVDB URL resolves to the
\* ID of the TMDB match, and _convert_ext_id is never called.
C2_TmdbUrlPreferred ==
    (NfoDone /\ Matching(TmdbPatterns) # {} /\ Matching(OtherPatterns) # {})
        => /\ sid_match.provider = "tmdb"
           /\ sid_match.show_id = MatchGroup(Least(Matching(TmdbPatterns)), 2)
           /\ conv_calls = <<>>

\* C3 as stated: the first pattern that matches decides; when it is a
\* secondary provider's and its conversion yields nothing, the result is
\* not-found. (Stated for the texts whose TMDB URLs, if any, are in small
\* letters, where the exact comparison of line 540 plays no part.)
C3_FirstMatchDecides ==
    (NfoDone /\ TmdbTagsPlain /\ Matching(1..Len(SHOW_ID_REGEXPS)) # {})
        => LET first == Least(Matching(1..Len(SHOW_ID_REGEXPS)))
           IN  IF first \in TmdbPatterns
               THEN sid_match.show_id = MatchGroup(first, 2)
               ELSE /\ Len(conv_calls) = 1
                    /\ IF Truthy(conv_calls[1].ret)
                       THEN sid_match.show_id = conv_calls[1].ret.v
                       ELSE sid_match = NoResult

\* The matching patterns below i, all of which went through _convert_ext_id.
ConvertedBelow(i) == {j \in Matching(1..(i - 1)) : ~ IsTmdbTag(MatchGroup(j, 1))}

\* C3 amended: the first pattern, in priority order, whose match yields an ID
\* decides: a match tagged 'themoviedb' or 'tmdb' yields its digits, any other
\* what _convert_ext_id returns. A conversion that yields nothing sends the
\* loop on to the next pattern, and the result is not-found only when no
\* matching pattern yields an ID.
C3_FirstYieldingMatchDecides ==
    NfoDone =>
        IF sid_match = NoResult
        THEN /\ rx = Len(SHOW_ID_REGEXPS) + 1
             /\ ConvertedBelow(rx) = Matching(1..Len(SHOW_ID_REGEXPS))
             /\ Len(conv_calls) = Cardinality(ConvertedBelow(rx))
             /\ \A k \in 1..Len(conv_calls) : ~ Truthy(conv_calls[k].ret)
        ELSE /\ rx \in Matching(1..Len(SHOW_ID_REGEXPS))
             /\ ConvertedBelow(rx) = Matching(1..(rx - 1))
             /\ sid_match.provider = "tmdb"
             /\ IF IsTmdbTag(MatchGroup(rx, 1))
                THEN /\ Len(conv_calls) = Cardinality(ConvertedBelow(rx))
                     /\ \A k \in 1..Len(conv_calls) : ~ Truthy(conv_calls[k].ret)
                     /\ sid_match.show_id = MatchGroup(rx, 2)
                ELSE /\ Len(conv_calls) = Cardinality(ConvertedBelow(rx)) + 1
                     /\ \A k \in 1..(Len(conv_calls) - 1) :
                            ~ Truthy(conv_calls[k].ret)
                     /\ conv_calls[Len(conv_calls)].ext_id = MatchGroup(rx, 2)
                     /\ Truthy(conv_calls[Len(conv_calls)].ret)
                     /\ sid_match.show_id = conv_calls[Len(conv_calls)].ret.v

\* A conversion was asked for and yielded nothing, and a pattern of lower
\* priority gave the ID.
C3_Witness ==
    /\ NfoDone
    /\ TmdbTagsPlain
    /\ Len(conv_calls) = 2
    /\ conv_calls[1].requested
    /\ ~ Truthy(conv_calls[1].ret)
    /\ sid_match # NoResult

\* The named seasons of a text, tag by tag: each number and name is the
\* shortest that the tag's own quotes and brackets close.
NamedSeasonTags(txt) ==
    FindAll(<< Lit(<<"<","n","a","m","e","d","s","e","a","s","o","n"," ",
                     "n","u","m","b","e","r","=","\"">>),
               GroupOpen(1), AnyLazy, GroupClose(1), Lit(<<"\"",">">>),
               GroupOpen(2), AnyLazy, GroupClose(2),
               Lit(<<"<","/","n","a","m","e","d","s","e","a","s","o","n",">">>) >>,
            txt)

\* C4: whatever becomes of the identifier, the named seasons returned are one
\* (number, name) pair per namedseason tag of the text.
C4_OneEntryPerTag ==
    NfoDone => ns_match = NamedSeasonTags(nfo)

\* The answers for which _convert_ext_id has an ID to return.
HasCandidate(info) == info.ok /\ info.has_tv /\ Len(info.tv_results) >= 1

\* Every call of _convert_ext_id sent a request exactly when the provider tag
\* is imdb, thetvdb or tvdb, and returned the first candidate's ID when the
\* answer lists one and None otherwise.
ConvertCallsRight ==
    \A k \in 1..Len(conv_calls) :
        LET c == conv_calls[k]
        IN  /\ c.requested <=> c.ext_provider \in {STR_imdb, STR_thetvdb, STR_tvdb}
            /\ c.requested =>
                 c.external_source =
                     Some(IF c.ext_provider = STR_imdb THEN STR_imdb_id
                          ELSE STR_tvdb_id)
            /\ ~ c.requested => c.ret = NoneStr
            /\ (c.requested /\ HasCandidate(c.show_info))
                 => c.ret = c.show_info.tv_results[1]
            /\ (c.requested /\ ~ HasCandidate(c.show_info)) => c.ret = NoneStr

\* C5 as stated: in addition, parse_nfo_url returns not-found once a
\* conversion has yielded nothing. (Stated for the texts whose TMDB URLs, if
\* any, are in small letters, where the exact comparison of line 540 plays no
\* part.)
C5_FailedConversionIsNotFound ==
    /\ ConvertCallsRight
    /\ (NfoDone /\ TmdbTagsPlain
        /\ \E k \in 1..Len(conv_calls) : ~ Truthy(conv_calls[k].ret))
           => sid_match = NoResult

\* C5 amended: in addition, parse_nfo_url comes to its return (nothing is
\* raised), and what it returns after a conversion that yielded nothing is
\* not-found unless a pattern of lower priority also matches and yields an ID.
C5_ConversionFailureTolerated ==
    /\ ConvertCallsRight
    /\ pc \in {"parse_nfo_url", "convert_ext_id", "nfo_loop", "nfo_return", "done"}
    /\ (NfoDone /\ \E k \in 1..Len(conv_calls) : ~ Truthy(conv_calls[k].ret))
          => \/ sid_match = NoResult
             \/ /\ sid_match.provider = "tmdb"
                /\ \E i \in Matching(1..Len(SHOW_ID_REGEXPS)) :
                     /\ \E j \in Matching(1..(i - 1)) :
                            ~ IsTmdbTag(MatchGroup(j, 1))
                     /\ \/ IsTmdbTag(MatchGroup(i, 1))
                              /\ sid_match.show_id = MatchGroup(i, 2)
                        \/ ~ IsTmdbTag(MatchGroup(i, 1))
                              /\ Truthy(conv_calls[Len(conv_calls)].ret)
                              /\ conv_calls[Len(conv_calls)].ext_id = MatchGroup(i, 2)
                              /\ sid_match.show_id = conv_calls[Len(conv_calls)].ret.v

\* parse_nfo_url returned not-found after one conversion that sent no request
\* and one whose request was answered without candidates.
C5_Witness ==
    /\ NfoDone
    /\ sid_match = NoResult
    /\ \E k \in 1..Len(conv_calls) : ~ conv_calls[k].requested
    /\ \E k \in 1..Len(conv_calls) :
           /\ conv_calls[k].requested
           /\ conv_calls[k].show_info.ok
           /\ conv_calls[k].ret = NoneStr

-----------------------------------------------------------------------------
(* Properties of _clean_plot                                               *)

\* s holds a tag: a '<', one or more characters other than '>', and a '>'.
HasTag(s) ==
    \E i \in 1..Len(s), j \in 1..Len(s) :
        /\ j > i + 1
        /\ s[i] = "<"
        /\ s[j] = ">"
        /\ \A k \in (i + 1)..(j - 1) : s[k] # ">"

\* How many times sub occurs in s.
Count(s, sub) == Cardinality({i \in 1..Len(s) : OccursAt(s, sub, i)})

\* Every substitution of the table has left at least as many replacements in
\* the output as the input has occurrences of what it replaces.
ReplacementsSurvive ==
    \A n \in 1..Len(CLEAN_PLOT_REPLACEMENTS) :
        Count(clean, CLEAN_PLOT_REPLACEMENTS[n][2])
            >= Count(plot, CLEAN_PLOT_REPLACEMENTS[n][1])

\* No '<' of s is followed by another '<' before the next '>'.
NoOpenBracketInsideTag(s) ==
    \A i \in 1..Len(s), j \in 1..Len(s) :
        (i < j /\ s[i] = "<" /\ s[j] = "<") => \E k \in (i + 1)..(j - 1) : s[k] = ">"

\* C6 as stated: the output holds no tag, cleaning it again changes nothing,
\* and the bracket replacements of the substitutions survive in the output.
C6_CleanPlotKeepsReplacements ==
    pc = "done" =>
        /\ ~ HasTag(clean)
        /\ CleanPlot(clean) = clean
        /\ ReplacementsSurvive

\* C6 amended: the output holds no tag and cleaning it again changes nothing;
\* the bracket replacements survive in the output when no '<' of the input is
\* followed by another '<' before the next '>' (a replacement made after an
\* unclosed '<' is stripped with it as one tag).
C6_CleanPlotIdempotentTagFree ==
    pc = "done" =>
        /\ ~ HasTag(clean)
        /\ CleanPlot(clean) = clean
        /\ NoOpenBracketInsideTag(plot) => ReplacementsSurvive

\* A plot with <b> and another tag has been cleaned: [B] is in the output and
\* the other tag is gone.
C6_Witness ==
    /\ pc = "done"
    /\ NoOpenBracketInsideTag(plot)
    /\ Count(plot, <<"<","b",">">>) = 1
    /\ Count(plot, <<"<","p",">">>) = 1
    /\ Count(clean, <<"[","B","]">>) = 1
    /\ Len(clean) < Len(ApplyReplacements(plot, 1))

-----------------------------------------------------------------------------
(* Properties of _set_unique_ids, add_main_show_info and _set_rating       *)

\* The three kinds of ID that the list item takes.
IdKinds == { <<"t","m","d","b">>, <<"i","m","d","b">>, <<"t","v","d","b">> }

\* A value of a dictionary of IDs that is not empty.
NonEmpty(value) ==
    \/ value.t = "str" /\ value.s # <<>>
    \/ value.t = "int" /\ value.n # 0

\* The item of ext_ids is one that is to be written to the list item.
Wanted(item) ==
    /\ \E kind \in IdKinds : item.key = kind \o <<"_","i","d">>
    /\ NonEmpty(item.value)

\* C7: once _set_unique_ids has run on ext_ids, every setUniqueID call has a
\* kind in {tmdb, imdb, tvdb}; the calls are those of the items of ext_ids
\* with one of the keys tmdb_id, imdb_id, tvdb_id and a value that is not
\* empty, in order, so that other keys and empty values cause no call; when
\* ext_ids holds a tmdb_id that is not empty, exactly one call has the default
\* flag and it is the one of kind tmdb; the returned dictionary has exactly
\* the kinds of the calls.
C7_UniqueIdsOfValidKinds ==
    pc # "set_unique_ids" =>
        LET calls == vtag.unique_ids
            wanted == SelectSeq(ext_ids, Wanted)
        IN  /\ \A k \in 1..Len(calls) : calls[k].type \in IdKinds
            /\ Len(calls) = Len(wanted)
            /\ \A k \in 1..Len(calls) :
                  /\ calls[k].type \o <<"_","i","d">> = wanted[k].key
                  /\ calls[k].isdefault = (calls[k].type = <<"t","m","d","b">>)
            /\ (\E k \in 1..Len(ext_ids) :
                   ext_ids[k].key = <<"t","m","d","b","_","i","d">> /\ NonEmpty(ext_ids[k].value))
                 => Cardinality({k \in 1..Len(calls) : calls[k].isdefault}) = 1
            /\ {return_ids[k].key : k \in 1..Len(return_ids)}
                 = {calls[k].type : k \in 1..Len(calls)}
            /\ Len(return_ids) = Len(calls)

\* _set_unique_ids has run on a dictionary of three items: a tmdb_id that is
\* not empty came after a key that is not an ID of the list item, another
\* item had an empty value, and the one call made is the default tmdb one.
C7_Witness ==
    /\ pc = "done"
    /\ Len(ext_ids) = 3
    /\ ext_ids[1].key = <<"f","a","c","e","b","o","o","k","_","i","d">> /\ NonEmpty(ext_ids[1].value)
    /\ ext_ids[2].key = <<"t","m","d","b","_","i","d">> /\ NonEmpty(ext_ids[2].value)
    /\ ext_ids[3].key = <<"i","m","d","b","_","i","d">> /\ ~ NonEmpty(ext_ids[3].value)
    /\ Len(vtag.unique_ids) = 1
    /\ vtag.unique_ids[1].isdefault
    /\ Len(return_ids) = 1

\* add_main_show_info is under way or has ended.
ShowCalled ==
    \/ pc \in {"add_main_show_info", "show_ids", "show_details", "show_artwork",
               "show_seasons", "show_cast", "show_rating", "show_poster",
               "show_return"}
    \/ pc \in {"done", "raised"} /\ (vtag.title.set \/ raised # "")

\* The fields of the list item that only a mapping in full writes.
FullOnlyFields ==
    {"status", "genres", "tags", "studios", "countries", "mpaa", "writers",
     "trailer", "seasons", "cast", "ratings", "fanart"}

\* C8: while and after add_main_show_info runs with full_info = False, the
\* status, genres, tags, studios, countries, certification, writers, trailer,
\* seasons, cast, ratings and fanart of the list item are as they were, the
\* list item has at most one artwork entry, which is of type poster, and it
\* has none when poster_path is missing, empty or ends in '.svg'.
C8_SummaryTouchesOnlyPoster ==
    (ShowCalled /\ ~ full_info) =>
        /\ \A f \in FullOnlyFields : vtag[f] = NewItem[f]
        /\ Len(vtag.artwork) <= 1
        /\ \A k \in 1..Len(vtag.artwork) :
              vtag.artwork[k].arttype = "poster" /\ vtag.artwork[k].season = 0 - 1
        /\ ( \/ ~ show_info.poster_path.some
             \/ show_info.poster_path.v = <<>>
             \/ ( /\ Len(show_info.poster_path.v) >= 4
                  /\ SubSeq(show_info.poster_path.v,
                            Len(show_info.poster_path.v) - 3,
                            Len(show_info.poster_path.v)) = <<".","s","v","g">> ) )
             => vtag.artwork = <<>>

\* add_main_show_info has returned from a mapping that was not in full: the
\* titles and IDs are set and the poster is the one artwork entry.
C8_Witness ==
    /\ pc = "done"
    /\ raised = ""
    /\ ~ full_info
    /\ vtag.title.set
    /\ vtag.unique_ids # <<>>
    /\ Len(vtag.artwork) = 1
    /\ show_info.genres.has
    /\ show_info.seasons.has

\* The rating of a source in the record, 0 when it is missing.
RatingValue(src) ==
    IF /\ show_info.ratings.has
       /\ show_info.ratings.v[src].has
       /\ show_info.ratings.v[src].has_rating
    THEN show_info.ratings.v[src].rating ELSE 0
IsPositive(src) == RatingValue(src) > 0

\* _set_rating has run.
RatingsSet ==
    \/ pc = "done" /\ ~ vtag.title.set
    \/ pc \in {"show_return", "done"} /\ vtag.title.set /\ full_info

\* C9: once _set_rating has run, the setRating calls are those of the
\* configured sources whose rating is positive, in the order of the list, so
\* that a source with rating 0 or none is not registered; the first call is
\* the only one with the default flag, the later ones are made without it; at
\* most one rating is the default, and exactly one when a configured source
\* has a positive rating.
C9_RatingIsFold ==
    RatingsSet =>
        LET calls == vtag.ratings
            positive == SelectSeq(source_settings.RATING_TYPES, IsPositive)
            defaults == {k \in 1..Len(calls) : calls[k].isdefault}
        IN  /\ Len(calls) = Len(positive)
            /\ \A k \in 1..Len(calls) :
                  /\ calls[k].type = positive[k]
                  /\ calls[k].rating = RatingValue(positive[k])
                  /\ calls[k].isdefault = (k = 1)
            /\ Cardinality(defaults) <= 1
            /\ (\E k \in 1..Len(source_settings.RATING_TYPES) :
                   IsPositive(source_settings.RATING_TYPES[k]))
                 => Cardinality(defaults) = 1

\* _set_rating has run over three sources of which the first has rating 0:
\* the second is registered as the default and the third without the flag.
C9_Witness ==
    /\ pc = "done"
    /\ Len(source_settings.RATING_TYPES) = 3
    /\ show_info.ratings.has
    /\ show_info.ratings.v[source_settings.RATING_TYPES[1]].has_rating
    /\ RatingValue(source_settings.RATING_TYPES[1]) = 0
    /\ Len(vtag.ratings) = 2
    /\ vtag.ratings[1].isdefault
    /\ ~ vtag.ratings[2].isdefault
    /\ vtag.ratings[2].type = source_settings.RATING_TYPES[3]

-----------------------------------------------------------------------------
(* Properties of _parse_trailer                                            *)

\* The two languages of the passes, and the URL of a video.
DetailLang == SubSeq(source_settings.LANG_DETAILS, 1, 2)
TrailerUrl(k) ==
    Some((IF source_settings.PLAYERSOPT = "tubed"
          THEN <<"p","l","u","g","i","n",":","/","/","p","l","u","g","i","n",".","v","i","d","e","o",".","t","u","b","e","d","/","?","m","o","d","e","=","p","l","a","y","&","v","i","d","e","o","_","i","d","=">>
          ELSE <<"p","l","u","g","i","n",":","/","/","p","l","u","g","i","n",".","v","i","d","e","o",".","y","o","u","t","u","b","e","/","p","l","a","y","/","?","v","i","d","e","o","_","i","d","=">>)
         \o results[k].key)

\* The positions of the YouTube videos of a language in langs that pass the
\* liveness check: those of type Trailer, and the others.
LiveTrailers(langs) ==
    { k \in 1..Len(results) :
        /\ results[k].site = "YouTube"
        /\ results[k].iso_639_1 \in langs
        /\ results[k].type = "Trailer"
        /\ results[k].key \in alive }
LiveFallbacks(langs) ==
    { k \in 1..Len(results) :
        /\ results[k].site = "YouTube"
        /\ results[k].iso_639_1 \in langs
        /\ results[k].type # "Trailer"
        /\ results[k].key \in alive }

-----------------------------------------------------------------------------
(* Properties of _get_credits                                               *)

\* The names of created_by followed by the names of the crew entries whose
\* job is 'writer' or whose department is 'writing', in any letter case.
CreditCandidates(info) ==
    [i \in 1..Len(info.created_by.v) |-> info.created_by.v[i].name]
    \o Loop(LAMBDA names, item :
                IF \/ Lower(item.job) = <<"w","r","i","t","e","r">>
                   \/ Lower(item.department) = <<"w","r","i","t","i","n","g">>
                THEN Append(names, item.name) ELSE names,
            <<>>, info.credits.crew)

\* A list without its repetitions, each entry kept where it first occurs.
FirstOccurrences(list) ==
    Loop(LAMBDA kept, x : IF x \in Range(kept) THEN kept ELSE Append(kept, x),
         <<>>, list)

\* C11: _get_credits returns the creators' names and the writers' names, each
\* name once, in the order of first occurrence, also when created_by itself
\* lists a name more than once.
C11_CreditsEachNameOnce ==
    pc = "got_credits" =>
        credit_names = FirstOccurrences(CreditCandidates(show_info))

\* A direct call whose record names one creator twice.
C11_Witness ==
    /\ pc = "got_credits"
    /\ Len(show_info.created_by.v) = 2
    /\ show_info.created_by.v[1] = show_info.created_by.v[2]

-----------------------------------------------------------------------------
(* Properties of the mappers on records with missing fields                 *)

\* C12: add_main_show_info and add_episode_info never raise, whichever keys
\* of the record are missing: every mapping goes on to return the list item.
C12_MissingFieldsNeverAbort ==
    raised = "" /\ pc # "raised"

\* The mappers can leave out what the record lacks: a show record without an
\* air date and an episode record without a name are both mapped to the end.
C12_Witness ==
    /\ pc = "done"
    /\ \/ vtag.tvshow_title.set /\ ~ show_info.first_air_date.some
       \/ vtag.episode.set /\ ~ episode_info.name.some

-----------------------------------------------------------------------------
(* Properties of get_pinyin_initials                                        *)

\* No exception leaves get_pinyin_initials.
PinyinNeverRaises ==
    raised = "" /\ pc # "raised"

\* The daemon is started at most once, only by a call that found no port,
\* and the loop that waits for the port makes at most POLL_ROUNDS rounds.
PinyinPollsBounded ==
    /\ daemon_runs <= 1
    /\ polls <= POLL_ROUNDS
    /\ polls > 0 => daemon_runs = 1

\* When get_pinyin_initials has returned "", the list item has no sort title
\* and gets the show's name and original name as they are in the record.
PinyinEmptyKeepsTitles ==
    (pc = "done" /\ pinyin = Some(<<>>)) =>
        /\ ~ vtag.sort_title.set
        /\ vtag.title = SetTo(ShowName(show_info, source_settings).v)
        /\ vtag.original_title = [set |-> TRUE, v |-> show_info.original_name]

\* Whatever get_pinyin_initials returns for a name is among the values that
\* add_main_show_info is taken to get from it.
PinyinResultsCover ==
    pinyin.some => pinyin.v \in PinyinResults(ShowName(show_info, source_settings).v)

\* C13: get_pinyin_initials always returns, whatever the window property
\* and the peer answer, so that add_main_show_info can go on to set the
\* titles.
C13_AlwaysReturns ==
    <>(pinyin # NoneStr)

\* The peer has sent something and has not closed the connection: the
\* function is in the loop that reads the answer.
C13_Witness ==
    /\ pc = "recv"
    /\ data
    /\ chunk # <<>>

-----------------------------------------------------------------------------
(* Properties of the liveness checks of _parse_trailer                      *)

\* The positions of the videos a pass looks at: the YouTube videos in the
\* detail language or in English.
Eligible ==
    { k \in 1..Len(results) :
        /\ results[k].site = "YouTube"
        /\ results[k].iso_639_1 \in {DetailLang, <<"e","n">>} }

\* C14: a URL that _parse_trailer returns is made of the key of a YouTube
\* video in the detail language or in English, and that key is the last one
\* given to _check_youtube, which answered true for it; every check before
\* it failed, so that none follows the one that succeeds; every key checked
\* is the key of such a video, and no check is made when the list is empty
\* or holds no such video.
C14_UrlFromLastCheckedYoutubeKey ==
    pc = "done" =>
        /\ trailer.some =>
              /\ checked # <<>>
              /\ checked[Len(checked)] \in alive
              /\ \E k \in Eligible :
                    /\ results[k].key = checked[Len(checked)]
                    /\ trailer = TrailerUrl(k)
        /\ \A i \in 1..Len(checked) :
              /\ (i < Len(checked) \/ ~ trailer.some) => checked[i] \notin alive
              /\ \E k \in Eligible : results[k].key = checked[i]
        /\ Eligible = {} => checked = <<>> /\ ~ trailer.some

\* _parse_trailer has returned the URL of a video that passed the check
\* after another failed it, and a further live video of the list, which a
\* check after the success would have reached, was never checked.
C14_Witness ==
    /\ pc = "done"
    /\ trailer.some
    /\ Len(checked) >= 2
    /\ \E k \in Eligible :
          /\ results[k].key \in alive
          /\ \A i \in 1..Len(checked) : checked[i] # results[k].key

-----------------------------------------------------------------------------
(* Properties of the identifier parse_nfo_url returns                       *)

\* C15: an identifier that parse_nfo_url returns has provider 'tmdb'; its
\* episode_grouping is set only when the pattern that decided is the first
\* one, the episode_group pattern, matched with the primary provider's tag,
\* and is then the third group of that match; an identifier that a later
\* pattern decided, a TMDB pattern of two groups or one of a secondary
\* provider, has no episode_grouping, whichever patterns matched and gave no
\* identifier before it.
C15_GroupingOnlyFromEpisodeGroupPattern ==
    (NfoDone /\ sid_match # NoResult) =>
        /\ sid_match.provider = "tmdb"
        /\ Matches(rx)
        /\ sid_match.ep_grouping.some =>
              /\ rx = 1
              /\ IsTmdbTag(MatchGroup(1, 1))
              /\ sid_match.ep_grouping = Some(MatchGroup(1, 3))
        /\ rx >= 2 => sid_match.ep_grouping = NoneStr
        /\ rx \in OtherPatterns =>
              /\ conv_calls # <<>>
              /\ Some(sid_match.show_id) = conv_calls[Len(conv_calls)].ret

\* parse_nfo_url has returned an identifier that a secondary provider's
\* pattern decided, by conversion, after the episode_group pattern had
\* matched the text and given no identifier.
C15_Witness ==
    /\ NfoDone
    /\ sid_match # NoResult
    /\ rx \in OtherPatterns
    /\ Matches(1)
    /\ MatchGroup(1, 3) # <<>>

====
